---- MODULE Spec2Model ----
(***************************************************************************)
(* A model of the fallback-source supervisor                               *)
(* (utils/fallbackswitch/src/fallbacksrc/imp.rs).                          *)
(*                                                                         *)
(* The supervisor state (Option<State>) is the variable `state`; every     *)
(* handler of the element is an action that runs one critical section of   *)
(* the state lock.  Handlers that release the lock in the middle are       *)
(* split at the release.  Tasks queued with call_async and timers          *)
(* registered at the system clock live outside the state and survive it.   *)
(***************************************************************************)
EXTENDS Integers, FiniteSets, Sequences, Bags, TLC

\* ---------------------------------------------------------------- bounds
MaxRetry == 2            \* cap of the retry counters
MaxTasks == 2            \* cap of the queued call_async tasks
MaxClock == 1            \* cap of the clock entries no SourceBin refers to
MaxStarts == 2           \* cap of the number of start() calls that succeed
NarrowRetry == 1         \* the same caps for the specifications that
NarrowTasks == 2         \*   explore a wider environment
NarrowClock == 0
NarrowStarts == 1
MaxRunningTime == 2      \* cap of running times and buffer timestamps
RestartTimeout == 2      \* settings.restart_timeout, in cool-down units
RetryTimeout == 1        \* settings.retry_timeout, in cool-down units

\* ------------------------------------------------------ program constants
CoolDown == 1            \* gst::ClockTime::SECOND before retrying

\* ------------------------------------------------------------ Option<T>
None == [none |-> TRUE]
Some(x) == [some |-> x]

States == <<"Null", "Ready", "Paused", "Playing">>
StateOrd(s) == CHOOSE i \in 1..4 : States[i] = s

Transitions ==
  { <<"Null", "Ready">>, <<"Ready", "Paused">>, <<"Paused", "Playing">>,
    <<"Playing", "Paused">>, <<"Paused", "Ready">>, <<"Ready", "Null">> }

PadNames == {"audio_0", "video_0", "video_1"}
IsVideoPad(pad) == pad \in {"video_0", "video_1"}

VARIABLES
  settings,              \* FallbackSrc::settings
  state,                 \* FallbackSrc::state : Option<State>
  host,                  \* the element's own state and the transition in progress
  tasks,                 \* bag of closures queued with call_async
  clock,                 \* bag of scheduled clock entries whose ClockId was dropped
  current_running_time,  \* element.current_running_time()
  panicked,              \* a panic (failed assert / expect) has happened
  limits                 \* the caps a specification explores within

vars ==
  <<settings, state, host, tasks, clock, current_running_time, panicked, limits>>

\* The part of the program a handler can change, passed through the
\* operators that model functions taking `&mut State`.
World ==
  [state |-> state, tasks |-> tasks, clock |-> clock, panicked |-> panicked,
   host |-> host, current_running_time |-> current_running_time]

\* ------------------------------------------------------------- clock ids
\* A SingleShotClockId: the time left until it is due and whether its
\* callback has already been called.
ClockId(remaining) == [remaining |-> remaining, fired |-> FALSE]

Entry(purpose, fallback_source, id) ==
  [purpose |-> purpose, fallback_source |-> fallback_source,
   remaining |-> id.remaining, before_stop |-> FALSE]

\* Dropping an Option<SingleShotClockId> without unschedule(): the entry
\* stays registered at the clock.
DropId(w, purpose, fallback_source, id) ==
  IF id = None \/ id.fired THEN w
  ELSE [w EXCEPT !.clock = @ (+) SetToBag({Entry(purpose, fallback_source, id)})]

Task(kind, fallback_source, pc) ==
  [kind |-> kind, fallback_source |-> fallback_source, pc |-> pc,
   source_weak |-> TRUE, before_stop |-> FALSE]

call_async(w, task) == [w EXCEPT !.tasks = @ (+) SetToBag({task})]

\* --------------------------------------------------------------- start()
Stats_default ==
  [num_retry |-> 0, num_fallback_retry |-> 0,
   last_retry_reason |-> "None", last_fallback_retry_reason |-> "None",
   buffering_percent |-> 100, fallback_buffering_percent |-> 100]

NewSourceBin ==
  [source |-> [cur_state |-> "Null", pads |-> {}],
   pending_restart |-> FALSE, is_live |-> FALSE, is_image |-> FALSE,
   restart_timeout |-> None, pending_restart_timeout |-> None,
   retry_timeout |-> None, streams |-> None]

create_main_input == NewSourceBin

\* create_main_input emits the "update-uri" signal when the configured
\* source is a URI; its callers call it between state.lock() and
\* drop(state_guard), so the handlers of the signal run with the state lock
\* held (locked).
emit_update_uri(h, is_uri, locked) ==
  IF is_uri THEN [h EXCEPT !.update_uri = IF locked THEN "Locked" ELSE "Released"]
  ELSE h

create_fallback_input(fallback_uri) ==
  IF fallback_uri THEN NewSourceBin ELSE None

create_stream == [main_branch |-> None, fallback_branch |-> None, active_pad |-> None]

start_any_configuration(w) ==
  IF w.state # None THEN [ok |-> FALSE, w |-> w]
  ELSE [ok |-> TRUE,
        w |-> [w EXCEPT !.host = emit_update_uri(@, settings.uri, TRUE), !.state =
          [source |-> create_main_input,
           fallback_source |-> create_fallback_input(settings.fallback_uri),
           video_stream |-> IF settings.enable_video THEN create_stream ELSE None,
           audio_stream |-> IF settings.enable_audio THEN create_stream ELSE None,
           last_buffering_update |-> None,
           fallback_last_buffering_update |-> None,
           settings |-> settings,
           configured_source |-> IF settings.uri THEN "Uri" ELSE "Element",
           stats |-> Stats_default,
           manually_blocked |-> settings.manual_unblock,
           schedule_restart_on_unblock |-> FALSE]]]

\* Result of start(): ok is FALSE when it returns Err(StateChangeError).
start(w) ==
  IF w.state # None THEN [ok |-> FALSE, w |-> w]
  ELSE IF ~settings.uri /\ ~settings.source THEN [ok |-> FALSE, w |-> w]
  ELSE [ok |-> TRUE,
        w |-> [w EXCEPT !.host = emit_update_uri(@, settings.uri, TRUE), !.state =
          [source |-> create_main_input,
           fallback_source |-> create_fallback_input(settings.fallback_uri),
           video_stream |-> IF settings.enable_video THEN create_stream ELSE None,
           audio_stream |-> IF settings.enable_audio THEN create_stream ELSE None,
           last_buffering_update |-> None,
           fallback_last_buffering_update |-> None,
           settings |-> settings,
           configured_source |-> IF settings.uri THEN "Uri" ELSE "Element",
           stats |-> Stats_default,
           manually_blocked |-> settings.manual_unblock,
           schedule_restart_on_unblock |-> FALSE]]]

\* ---------------------------------------------------------------- stop()
\* Taking the state drops both source bins: weak references to them no
\* longer upgrade.  The ClockIds held by the state are unscheduled; entries
\* whose id was dropped earlier stay at the clock.
MarkTask(t) == [t EXCEPT !.before_stop = TRUE, !.source_weak = FALSE]

\* The bag of the images f[e] of the elements e of the bag B.
BagImage(B, f) ==
  LET S == BagToSet(B)
      T == { f[e] : e \in S }
      Sum[X \in SUBSET S] ==
        IF X = {} THEN 0
        ELSE LET e == CHOOSE e \in X : TRUE IN B[e] + Sum[X \ {e}]
  IN [ t \in T |-> Sum[{ e \in S : f[e] = t }] ]

MarkTasks(B) == BagImage(B, [t \in BagToSet(B) |-> MarkTask(t)])

MarkEntry(e) == [e EXCEPT !.before_stop = TRUE]

MarkEntries(B) == BagImage(B, [e \in BagToSet(B) |-> MarkEntry(e)])

Panic(w) == [w EXCEPT !.panicked = TRUE]

\* A Block record of a branch of the stream: its probe is installed on the
\* branch's queue source pad.
HasBlocks(stream) ==
  /\ stream # None
  /\ \/ stream.main_branch # None /\ stream.main_branch.source_srcpad_block # None
     \/ stream.fallback_branch # None /\ stream.fallback_branch.source_srcpad_block # None

\* stop() removes the elements of every branch and drops the streams; it
\* calls remove_probe for none of their Block records, so the probes of the
\* blocks that are outstanding stay on the pads (probes_left).
TearDownStreams(w) ==
  [w EXCEPT !.host.probes_left =
     HasBlocks(w.state.video_stream) \/ HasBlocks(w.state.audio_stream)]

\* stop() that insists on a state object to take.
stop_expects_state(w) ==
  IF w.state = None THEN Panic(w)
  ELSE [TearDownStreams(w) EXCEPT !.state = None,
                 !.tasks = MarkTasks(@),
                 !.clock = MarkEntries(@)]

stop(w) ==
  IF w.state = None THEN w
  ELSE [TearDownStreams(w) EXCEPT !.state = None,
                 !.tasks = MarkTasks(@),
                 !.clock = MarkEntries(@)]

\* ------------------------------------------------------ "status" property
HaveAudio(streams) == streams # None /\ streams.audio
HaveVideo(streams) == streams # None /\ streams.video

MainBlocked(stream) ==
  IF stream = None \/ stream.main_branch = None THEN TRUE
  ELSE stream.main_branch.source_srcpad_block # None

status_without_blocks(st) ==
  IF st = None THEN "Stopped"
  ELSE IF st.source.pending_restart
          \/ st.source.pending_restart_timeout # None
          \/ st.source.retry_timeout # None
  THEN "Retrying"
  ELSE IF st.stats.buffering_percent < 100
          \/ st.source.restart_timeout # None
          \/ st.source.streams = None
  THEN "Buffering"
  ELSE "Running"

status(st) ==
  IF st = None THEN "Stopped"
  ELSE IF st.source.pending_restart
          \/ st.source.pending_restart_timeout # None
          \/ st.source.retry_timeout # None
  THEN "Retrying"
  ELSE IF st.stats.buffering_percent < 100
          \/ st.source.restart_timeout # None
          \/ st.source.streams = None
          \/ (HaveAudio(st.source.streams) /\ MainBlocked(st.audio_stream))
          \/ (HaveVideo(st.source.streams) /\ MainBlocked(st.video_stream))
  THEN "Buffering"
  ELSE "Running"

\* ------------------------------------------------------------- accessors
Src(st, fallback_source) ==
  IF fallback_source THEN st.fallback_source ELSE st.source

SetSrc(st, fallback_source, source) ==
  IF fallback_source THEN [st EXCEPT !.fallback_source = source]
  ELSE [st EXCEPT !.source = source]

StreamOf(st, is_video) ==
  IF is_video THEN st.video_stream ELSE st.audio_stream

SetStream(st, is_video, stream) ==
  IF is_video THEN [st EXCEPT !.video_stream = stream]
  ELSE [st EXCEPT !.audio_stream = stream]

BranchOf(stream, fallback_source) ==
  IF stream = None THEN None
  ELSE IF fallback_source THEN stream.fallback_branch ELSE stream.main_branch

SetBranch(stream, fallback_source, branch) ==
  IF fallback_source THEN [stream EXCEPT !.fallback_branch = branch]
  ELSE [stream EXCEPT !.main_branch = branch]

\* ------------------------------------------------ have_fallback_activated
ActivePadNotMain(stream) ==
  stream.active_pad = None \/ stream.active_pad.some # 0

have_fallback_activated(st) ==
  LET have_audio == HaveAudio(st.source.streams)
      have_video == HaveVideo(st.source.streams)
  IN \/ (~have_audio /\ ~have_video)
     \/ (have_audio /\ st.audio_stream # None /\ ActivePadNotMain(st.audio_stream))
     \/ (have_video /\ st.video_stream # None /\ ActivePadNotMain(st.video_stream))

\* ---------------------------------------- schedule_source_restart_timeout
\* The new id is stored over whatever the field held; an id that was still
\* there is dropped without unschedule().
schedule_whole_restart_timeout(w, elapsed, fallback_source) ==
  IF fallback_source THEN w
  ELSE IF w.state.source.pending_restart THEN w
  ELSE IF w.state.source.is_image THEN w
  ELSE IF w.state.manually_blocked THEN w
  ELSE LET w1 == DropId(w, "restart", FALSE, w.state.source.restart_timeout)
       IN [w1 EXCEPT !.state.source.restart_timeout = ClockId(RestartTimeout)]

schedule_source_restart_timeout(w, elapsed, fallback_source) ==
  IF fallback_source THEN w
  ELSE IF w.state.source.pending_restart THEN w
  ELSE IF w.state.source.is_image THEN w
  ELSE IF w.state.manually_blocked THEN w
  ELSE LET w1 == DropId(w, "restart", FALSE, w.state.source.restart_timeout)
       IN [w1 EXCEPT !.state.source.restart_timeout = ClockId(RestartTimeout - elapsed)]

\* ---------------------------------------------------- handle_source_error
handle_source_error(w, reason, fallback_source) ==
  LET st1 == IF fallback_source
             THEN [w.state EXCEPT !.stats.last_fallback_retry_reason = reason]
             ELSE [w.state EXCEPT !.stats.last_retry_reason = reason]
  IN IF fallback_source /\ st1.fallback_source = None THEN Panic(w)
     ELSE IF Src(st1, fallback_source).pending_restart THEN [w EXCEPT !.state = st1]
     ELSE LET st2 == IF fallback_source
                     THEN [st1 EXCEPT !.stats.num_fallback_retry = @ + 1]
                     ELSE [st1 EXCEPT !.stats.num_retry = @ + 1]
              source == [Src(st2, fallback_source) EXCEPT
                           !.restart_timeout = None,
                           !.pending_restart = TRUE]
          IN call_async([w EXCEPT !.state = SetSrc(st2, fallback_source, source)],
                        Task("source_error", fallback_source, "remove_blocks"))

\* ------------------------------------------------------------ unblock_pads
BlockRunningTime(branch) ==
  IF branch = None \/ branch.source_srcpad_block = None THEN None
  ELSE branch.source_srcpad_block.running_time

IsEos(branch) == branch # None /\ branch.eos

PadOffset(current, running_time) == current.some - running_time

\* `block.take()`, set_offset unless the source pad is EOS, remove_probe.
ReleaseBlock(branch, offset) ==
  IF branch = None \/ branch.source_srcpad_block = None THEN branch
  ELSE [branch EXCEPT !.source_srcpad_block = None,
                      !.offset = IF branch.eos THEN @ ELSE Some(offset)]

ReleaseStream(stream, fallback_source, offset) ==
  IF stream = None THEN None
  ELSE SetBranch(stream, fallback_source,
                 ReleaseBlock(BranchOf(stream, fallback_source), offset))

MinTime(a, b) == IF a < b THEN a ELSE b

unblock_pads(w, fallback_source) ==
  LET st == w.state
      current == w.current_running_time
  IN
  IF current = None THEN w
  ELSE IF ~fallback_source /\ st.manually_blocked THEN w
  ELSE IF \/ (fallback_source /\ st.stats.fallback_buffering_percent < 100)
          \/ (~fallback_source /\ st.stats.buffering_percent < 100) THEN w
  ELSE IF fallback_source /\ st.fallback_source = None THEN w
  ELSE IF Src(st, fallback_source).streams = None THEN w
  ELSE
    LET streams == Src(st, fallback_source).streams
        have_audio == streams.audio
        have_video == streams.video
        want_audio == IF fallback_source THEN have_audio ELSE st.settings.enable_audio
        want_video == IF fallback_source THEN have_video ELSE st.settings.enable_video
        audio_branch == BranchOf(st.audio_stream, fallback_source)
        video_branch == BranchOf(st.video_stream, fallback_source)
        audio_running_time == BlockRunningTime(audio_branch)
        video_running_time == BlockRunningTime(video_branch)
        audio_is_eos == IsEos(audio_branch)
        video_is_eos == IsEos(video_branch)
    IN
    IF have_audio /\ want_audio /\ have_video /\ want_video THEN
      IF audio_running_time = None /\ ~audio_is_eos
         /\ video_running_time = None /\ ~video_is_eos THEN w
      ELSE IF audio_running_time = None /\ ~audio_is_eos THEN w
      ELSE IF video_running_time = None /\ ~video_is_eos THEN w
      ELSE IF audio_running_time = None \/ video_running_time = None
      THEN Panic(w)   \* expect("checked above")
      ELSE
        LET min_running_time ==
              IF audio_is_eos THEN video_running_time.some
              ELSE IF video_is_eos THEN audio_running_time.some
              ELSE MinTime(audio_running_time.some, video_running_time.some)
            offset == PadOffset(current, min_running_time)
        IN [w EXCEPT !.state.audio_stream = ReleaseStream(@, fallback_source, offset),
                     !.state.video_stream = ReleaseStream(@, fallback_source, offset)]
    ELSE IF have_audio /\ want_audio THEN
      IF audio_running_time = None THEN w
      ELSE [w EXCEPT !.state.audio_stream =
              ReleaseStream(@, fallback_source, PadOffset(current, audio_running_time.some))]
    ELSE IF have_video /\ want_video THEN
      IF video_running_time = None THEN w
      ELSE [w EXCEPT !.state.video_stream =
              ReleaseStream(@, fallback_source, PadOffset(current, video_running_time.some))]
    ELSE w

\* ---------------------------------------------- handle_source_pad_removed
\* Releasing the request pad the switch has active leaves it without an
\* active pad until it selects another one.
ReleaseSwitchPad(stream, fallback_source) ==
  LET priority == IF fallback_source THEN 1 ELSE 0
  IN [SetBranch(stream, fallback_source, None) EXCEPT
        !.active_pad = IF @ = Some(priority) THEN None ELSE @]

HasBranchFor(stream, fallback_source, pad) ==
  /\ stream # None
  /\ BranchOf(stream, fallback_source) # None
  /\ BranchOf(stream, fallback_source).source_srcpad = pad

handle_source_pad_removed(w, pad, fallback_source) ==
  LET st == w.state IN
  IF st = None THEN w
  ELSE IF fallback_source /\ st.fallback_source = None THEN w
  ELSE IF HasBranchFor(st.audio_stream, fallback_source, pad)
  THEN unblock_pads([w EXCEPT !.state.audio_stream =
                       ReleaseSwitchPad(@, fallback_source)], fallback_source)
  ELSE IF HasBranchFor(st.video_stream, fallback_source, pad)
  THEN unblock_pads([w EXCEPT !.state.video_stream =
                       ReleaseSwitchPad(@, fallback_source)], fallback_source)
  ELSE w

\* ------------------------------------------------- source bin state change
\* gst_element_set_state() on a source bin.  A bin that leaves PAUSED for
\* READY or NULL removes its source pads, and each removal runs the
\* pad-removed callback (the state lock is not held around set_state).
RECURSIVE RemovePads(_, _, _)
RemovePads(w, pads, fallback_source) ==
  IF pads = {} THEN w
  ELSE LET pad == CHOOSE pad \in pads : TRUE
       IN RemovePads(handle_source_pad_removed(w, pad, fallback_source),
                     pads \ {pad}, fallback_source)

set_state(w, fallback_source, next) ==
  IF w.state = None \/ Src(w.state, fallback_source) = None THEN w
  ELSE IF StateOrd(next) >= StateOrd("Paused")
  THEN [w EXCEPT !.state = SetSrc(@, fallback_source,
          [Src(@, fallback_source) EXCEPT !.source.cur_state = next])]
  ELSE LET pads == Src(w.state, fallback_source).source.pads
           w1 == [w EXCEPT !.state = SetSrc(@, fallback_source,
                    [Src(@, fallback_source) EXCEPT
                       !.source = [cur_state |-> next, pads |-> {}]])]
       IN RemovePads(w1, pads, fallback_source)

\* ------------------------------------------------- handle_source_pad_added
add_pad_probe == [running_time |-> None]

NewBranch(pad, is_image) ==
  [source_srcpad |-> pad, source_srcpad_block |-> add_pad_probe,
   is_image |-> is_image, eos |-> FALSE, offset |-> None]

handle_source_pad_added_replaces(w, pad, is_image, fallback_source) ==
  LET st == w.state IN
  IF st = None THEN w
  ELSE IF fallback_source /\ st.fallback_source = None THEN w
  ELSE
    LET source0 == Src(st, fallback_source)
        source == [source0 EXCEPT
          !.pending_restart_timeout = IF is_image THEN None ELSE @,
          !.retry_timeout = IF is_image THEN None ELSE @,
          !.restart_timeout = IF is_image THEN None ELSE @,
          !.is_image = @ \/ is_image]
        st1 == SetSrc(st, fallback_source, source)
        is_video == IsVideoPad(pad)
        stream == StreamOf(st1, is_video)
    IN IF stream = None THEN [w EXCEPT !.state = st1]
       ELSE [w EXCEPT !.state = SetStream(st1, is_video,
               SetBranch(stream, fallback_source, NewBranch(pad, is_image)))]

handle_source_pad_added(w, pad, is_image, fallback_source) ==
  LET st == w.state IN
  IF st = None THEN w
  ELSE IF fallback_source /\ st.fallback_source = None THEN w
  ELSE
    LET source0 == Src(st, fallback_source)
        source == [source0 EXCEPT
          !.pending_restart_timeout = IF is_image THEN None ELSE @,
          !.retry_timeout = IF is_image THEN None ELSE @,
          !.restart_timeout = IF is_image THEN None ELSE @,
          !.is_image = @ \/ is_image]
        st1 == SetSrc(st, fallback_source, source)
        is_video == IsVideoPad(pad)
        stream == StreamOf(st1, is_video)
    IN IF stream = None THEN [w EXCEPT !.state = st1]
       ELSE IF BranchOf(stream, fallback_source) # None THEN [w EXCEPT !.state = st1]
       ELSE [w EXCEPT !.state = SetStream(st1, is_video,
               SetBranch(stream, fallback_source, NewBranch(pad, is_image)))]

\* ------------------------------------------------------ handle_pad_blocked
\* The running time of the first buffer or gap on a blocked pad: the
\* timestamp clamped into the segment, then Segment::to_running_time.
to_running_time(segment, position) ==
  IF position = None THEN None
  ELSE IF position.some < segment.start THEN None
  ELSE IF segment.stop # None /\ position.some > segment.stop.some THEN None
  ELSE Some(position.some - segment.start)

BlockRunningTimeOf(segment, pts) ==
  IF pts # None /\ pts.some < segment.start
  THEN to_running_time(segment, Some(segment.start))
  ELSE IF pts # None /\ segment.stop # None /\ pts.some >= segment.stop.some
  THEN to_running_time(segment, segment.stop)
  ELSE to_running_time(segment, pts)

handle_pad_blocked_gated(w, is_video, pts, segment, fallback_source) ==
  LET st == w.state IN
  IF st = None THEN w
  ELSE
    LET stream == StreamOf(st, is_video)
        branch == BranchOf(stream, fallback_source)
    IN IF branch.source_srcpad_block = None THEN w
       ELSE IF segment = None THEN w
       ELSE unblock_pads(
              [w EXCEPT !.state = SetStream(st, is_video,
                 SetBranch(stream, fallback_source,
                   [branch EXCEPT !.source_srcpad_block.running_time =
                      BlockRunningTimeOf(segment, pts)]))],
              fallback_source)

handle_pad_blocked(w, is_video, pts, segment, fallback_source) ==
  LET st == w.state IN
  IF st = None THEN w
  ELSE
    LET stream == StreamOf(st, is_video)
        branch == BranchOf(stream, fallback_source)
        source == Src(st, fallback_source)
    IN IF source.is_live
       THEN [w EXCEPT !.state = SetStream(st, is_video,
               SetBranch(stream, fallback_source,
                         [branch EXCEPT !.source_srcpad_block = None]))]
       ELSE IF branch.source_srcpad_block = None THEN w
       ELSE IF segment = None THEN w
       ELSE unblock_pads(
              [w EXCEPT !.state = SetStream(st, is_video,
                 SetBranch(stream, fallback_source,
                   [branch EXCEPT !.source_srcpad_block.running_time =
                      BlockRunningTimeOf(segment, pts)]))],
              fallback_source)

\* -------------------------------------------------------- handle_buffering
\* origin: the container the message's source element is inside of.
Reblock(stream, fallback_source) ==
  IF stream = None \/ BranchOf(stream, fallback_source) = None THEN stream
  ELSE IF BranchOf(stream, fallback_source).source_srcpad_block # None THEN stream
  ELSE SetBranch(stream, fallback_source,
         [BranchOf(stream, fallback_source) EXCEPT
            !.source_srcpad_block = add_pad_probe])

MessageIsFallback(st, origin) ==
  IF st.fallback_source # None THEN Some(origin = "fallback")
  ELSE IF origin = "main" THEN Some(FALSE)
  ELSE None

handle_buffering_no_block(w, origin, percent) ==
  LET st == w.state IN
  IF st = None THEN w
  ELSE IF MessageIsFallback(st, origin) = None THEN w
  ELSE
    LET fallback_source == MessageIsFallback(st, origin).some IN
    IF Src(st, fallback_source).pending_restart THEN w
    ELSE
      LET st1 == IF fallback_source
                 THEN [st EXCEPT !.stats.fallback_buffering_percent = percent]
                 ELSE [st EXCEPT !.stats.buffering_percent = percent]
      IN IF percent < 100
         THEN [w EXCEPT !.state =
                (IF fallback_source
                 THEN [st1 EXCEPT !.fallback_last_buffering_update = Some(0)]
                 ELSE [st1 EXCEPT !.last_buffering_update = Some(0)])]
         ELSE unblock_pads([w EXCEPT !.state = st1], fallback_source)

handle_buffering(w, origin, percent) ==
  LET st == w.state IN
  IF st = None THEN w
  ELSE IF MessageIsFallback(st, origin) = None THEN w
  ELSE
    LET fallback_source == MessageIsFallback(st, origin).some IN
    IF Src(st, fallback_source).pending_restart THEN w
    ELSE
      LET st1 == IF fallback_source
                 THEN [st EXCEPT !.stats.fallback_buffering_percent = percent]
                 ELSE [st EXCEPT !.stats.buffering_percent = percent]
      IN IF percent < 100
         THEN [w EXCEPT !.state =
                [(IF fallback_source
                  THEN [st1 EXCEPT !.fallback_last_buffering_update = Some(0)]
                  ELSE [st1 EXCEPT !.last_buffering_update = Some(0)])
                 EXCEPT !.audio_stream = Reblock(@, fallback_source),
                        !.video_stream = Reblock(@, fallback_source)]]
         ELSE unblock_pads([w EXCEPT !.state = st1], fallback_source)

\* ------------------------------------------------- handle_streams_selected
handle_streams_selected(w, origin, streams) ==
  LET st == w.state IN
  IF st = None THEN w
  ELSE IF MessageIsFallback(st, origin) = None THEN w
  ELSE
    LET fallback_source == MessageIsFallback(st, origin).some
        st1 == SetSrc(st, fallback_source,
                 [Src(st, fallback_source) EXCEPT !.streams = streams])
    IN unblock_pads(
         [w EXCEPT !.state =
            [st1 EXCEPT !.video_stream = Reblock(@, fallback_source),
                        !.audio_stream = Reblock(@, fallback_source)]],
         fallback_source)

\* ------------------------------------------------------------ handle_error
\* handled is FALSE when the message is passed on to the parent bin.
handle_error_unless_pending(w, origin) ==
  LET st == w.state IN
  IF st = None THEN [handled |-> FALSE, w |-> w]
  ELSE IF origin = "main" /\ ~st.source.pending_restart
  THEN [handled |-> TRUE, w |-> handle_source_error(w, "Error", FALSE)]
  ELSE IF st.fallback_source # None /\ origin = "fallback"
          /\ ~st.fallback_source.pending_restart
  THEN [handled |-> TRUE, w |-> handle_source_error(w, "Error", TRUE)]
  ELSE [handled |-> FALSE, w |-> w]

handle_error(w, origin) ==
  LET st == w.state IN
  IF st = None THEN [handled |-> FALSE, w |-> w]
  ELSE IF origin = "main"
  THEN [handled |-> TRUE, w |-> handle_source_error(w, "Error", FALSE)]
  ELSE IF st.fallback_source # None /\ origin = "fallback"
  THEN [handled |-> TRUE, w |-> handle_source_error(w, "Error", TRUE)]
  ELSE [handled |-> FALSE, w |-> w]

\* --------------------------------------------------------------- EOS probe
\* The probe installed for a branch captured is_image and fallback_source
\* of the pad it was installed for.
\* What the probe returns for an EOS event: "Drop" swallows the event, "Ok"
\* lets it pass downstream.
eos_probe_return(st, is_video, fallback_source) ==
  IF st = None THEN "Ok"
  ELSE IF BranchOf(StreamOf(st, is_video), fallback_source).is_image THEN "Ok"
  ELSE IF st.settings.restart_on_eos \/ fallback_source THEN "Drop"
  ELSE "Ok"

eos_probe_always_restarts(w, is_video, fallback_source) ==
  LET st == w.state IN
  IF st = None THEN w
  ELSE
    LET stream == StreamOf(st, is_video)
        branch == BranchOf(stream, fallback_source)
        w1 == [w EXCEPT !.state = SetStream(st, is_video,
                 SetBranch(stream, fallback_source, [branch EXCEPT !.eos = TRUE]))]
    IN IF branch.is_image THEN w1
       ELSE handle_source_error(w1, "Eos", fallback_source)

eos_probe(w, is_video, fallback_source) ==
  LET st == w.state IN
  IF st = None THEN w
  ELSE
    LET stream == StreamOf(st, is_video)
        branch == BranchOf(stream, fallback_source)
        w1 == [w EXCEPT !.state = SetStream(st, is_video,
                 SetBranch(stream, fallback_source, [branch EXCEPT !.eos = TRUE]))]
    IN IF branch.is_image THEN w1
       ELSE IF st.settings.restart_on_eos \/ fallback_source
       THEN handle_source_error(w1, "Eos", fallback_source)
       ELSE w1

\* ---------------------------------------------- "unblock" action signal
unblock_always_schedules(w) ==
  IF w.state = None THEN w
  ELSE
    LET w1 == [w EXCEPT !.state.manually_blocked = FALSE]
        w2 == IF have_fallback_activated(w1.state)
              THEN schedule_source_restart_timeout(w1, 0, FALSE)
              ELSE w1
    IN unblock_pads(w2, FALSE)

unblock(w) ==
  IF w.state = None THEN w
  ELSE
    LET w1 == [w EXCEPT !.state.manually_blocked = FALSE]
        w2 == IF w1.state.schedule_restart_on_unblock
                 /\ have_fallback_activated(w1.state)
              THEN schedule_source_restart_timeout(w1, 0, FALSE)
              ELSE w1
    IN unblock_pads(w2, FALSE)

\* --------------------------------------- handle_switch_active_pad_change
switch_active_pad_reschedules(w) ==
  IF w.state = None THEN w
  ELSE IF have_fallback_activated(w.state)
  THEN schedule_source_restart_timeout(w, 0, FALSE)
  ELSE [w EXCEPT !.state.source.retry_timeout = None,
                 !.state.source.restart_timeout = None]

handle_switch_active_pad_change(w) ==
  IF w.state = None THEN w
  ELSE IF have_fallback_activated(w.state)
  THEN IF w.state.source.restart_timeout = None
       THEN schedule_source_restart_timeout(w, 0, FALSE)
       ELSE w
  ELSE [w EXCEPT !.state.source.retry_timeout = None,
                 !.state.source.restart_timeout = None]

\* ------------------------------------- handle_source_error: queued closure
\* "Restarting source not needed anymore" checks of the closures.
RestartWanted(st, fallback_source) ==
  IF fallback_source
  THEN st.fallback_source = None \/ st.fallback_source.pending_restart
  ELSE st.source.pending_restart

ClearBlock(stream, fallback_source) ==
  IF stream = None \/ BranchOf(stream, fallback_source) = None THEN stream
  ELSE SetBranch(stream, fallback_source,
         [BranchOf(stream, fallback_source) EXCEPT !.source_srcpad_block = None])

\* First critical section, then flushing and releasing the switch pads and
\* source.set_state(Null) with the lock released.
source_error_shutdown(w, t) ==
  IF ~t.source_weak THEN w
  ELSE IF w.state = None THEN w
  ELSE IF ~RestartWanted(w.state, t.fallback_source) THEN w
  ELSE
    LET w1 == [w EXCEPT !.state.video_stream = ClearBlock(@, t.fallback_source),
                        !.state.audio_stream = ClearBlock(@, t.fallback_source)]
        w2 == set_state(w1, t.fallback_source, "Null")
    IN call_async(w2, Task("source_error", t.fallback_source, "cool_down"))

\* Second critical section: register the cool-down timer.
source_error_cool_down(w, t) ==
  IF w.state = None THEN w
  ELSE IF ~RestartWanted(w.state, t.fallback_source) THEN w
  ELSE
    LET fallback_source == t.fallback_source
        w1 == [w EXCEPT !.state.video_stream = ClearBlock(@, fallback_source),
                        !.state.audio_stream = ClearBlock(@, fallback_source)]
        source == Src(w1.state, fallback_source)
    IN IF source = None
       THEN DropId(w1, "pending_restart", fallback_source, ClockId(CoolDown))
       ELSE IF source.pending_restart_timeout # None THEN Panic(w1)
       ELSE [w1 EXCEPT !.state = SetSrc(@, fallback_source,
               [source EXCEPT !.pending_restart_timeout = ClockId(CoolDown)])]

\* ------------------------------------ cool-down timer: queued continuation
\* Tasks and a host transition that still hold the replaced primary bin.
StaleTask(t) ==
  IF ~t.fallback_source /\ t.kind \in {"source_error", "restart"}
  THEN [t EXCEPT !.source_weak = FALSE] ELSE t

StaleTasks(B) == BagImage(B, [t \in BagToSet(B) |-> StaleTask(t)])

restart_source(w, t) ==
  IF w.state = None THEN w
  ELSE IF ~RestartWanted(w.state, t.fallback_source) THEN w
  ELSE IF ~t.fallback_source /\ w.state.configured_source = "Uri"
  THEN
    LET old_source == w.state.source
        w1 == [w EXCEPT !.state.source = create_main_input,
                        !.tasks = StaleTasks(@),
                        !.host.source_weak = IF w.host.pc = "source" THEN FALSE ELSE @,
                        !.host = emit_update_uri(@, TRUE, TRUE)]
        w2 == DropId(w1, "pending_restart", FALSE, old_source.pending_restart_timeout)
        w3 == DropId(w2, "restart", FALSE, old_source.restart_timeout)
        w4 == RemovePads(w3, old_source.source.pads, FALSE)
    IN call_async(w4, Task("restart", FALSE, "sync"))
  ELSE IF ~t.fallback_source
  THEN
    LET w1 == DropId(w, "pending_restart", FALSE, w.state.source.pending_restart_timeout)
    IN call_async(
         [w1 EXCEPT !.state.source.pending_restart = FALSE,
                    !.state.source.pending_restart_timeout = None,
                    !.state.stats.buffering_percent = 100,
                    !.state.last_buffering_update = None,
                    !.state.source.restart_timeout = None],
         Task("restart", FALSE, "sync"))
  ELSE IF w.state.fallback_source # None
  THEN
    LET w1 == DropId(w, "pending_restart", TRUE,
                     w.state.fallback_source.pending_restart_timeout)
    IN call_async(
         [w1 EXCEPT !.state.fallback_source.pending_restart = FALSE,
                    !.state.fallback_source.pending_restart_timeout = None,
                    !.state.stats.fallback_buffering_percent = 100,
                    !.state.fallback_last_buffering_update = None,
                    !.state.fallback_source.restart_timeout = None],
         Task("restart", TRUE, "sync"))
  ELSE w

\* The state the parent element is in or is changing to.
ParentState(h) == IF h.pc = "idle" THEN h.cur ELSE h.next

\* source.sync_state_with_parent() with the lock released, then the last
\* critical section.
restart_sync(w, t, ok) ==
  LET fallback_source == t.fallback_source
      w1 == IF ~t.source_weak THEN w
            ELSE IF ok THEN set_state(w, fallback_source, ParentState(w.host))
            ELSE set_state(w, fallback_source, "Null")
  IN IF w1.state = None THEN Panic(w1)          \* expect("no state")
     ELSE IF ~ok THEN handle_source_error(w1, "StateChangeFailure", fallback_source)
     ELSE IF Src(w1.state, fallback_source) # None
             /\ Src(w1.state, fallback_source).restart_timeout # None
     THEN Panic(w1)                             \* assert!(restart_timeout.is_none())
     ELSE schedule_source_restart_timeout(w1, 0, fallback_source)

\* ------------------------ schedule_source_restart_timeout: queued closure
NotBuffering_percent(last_buffering_update, buffering_percent) ==
  buffering_percent = 100

NotBuffering(last_buffering_update, buffering_percent) ==
  IF last_buffering_update # None
  THEN last_buffering_update.some >= RestartTimeout
  ELSE buffering_percent = 100

restart_timeout_triggered(w) ==
  IF w.state = None THEN w
  ELSE
    LET w1 == DropId(w, "restart", FALSE, w.state.source.restart_timeout)
        w2 == [w1 EXCEPT !.state.source.restart_timeout = None]
        st == w2.state
    IN IF have_fallback_activated(st)
       THEN IF NotBuffering(st.last_buffering_update, st.stats.buffering_percent)
            THEN handle_source_error(w2, "Timeout", FALSE)
            ELSE schedule_source_restart_timeout(w2,
                   IF st.last_buffering_update # None
                   THEN st.last_buffering_update.some ELSE 0, FALSE)
       ELSE w2

\* ---------------------------------------------------- change_source_state
\* First critical section; set_state tells whether the transition goes on
\* to source.set_state(transition.next()).
change_source_state_unsets(w, transition, fallback_source) ==
  IF w.state = None THEN [set_state |-> FALSE, w |-> w]
  ELSE IF fallback_source /\ w.state.fallback_source = None
  THEN [set_state |-> FALSE, w |-> w]
  ELSE
    LET source == Src(w.state, fallback_source) IN
    IF source.pending_restart
    THEN [set_state |-> TRUE,
          w |-> [w EXCEPT !.state = SetSrc(@, fallback_source,
                   [source EXCEPT !.pending_restart = FALSE,
                                  !.pending_restart_timeout = None])]]
    ELSE [set_state |-> TRUE, w |-> w]

change_source_state(w, transition, fallback_source) ==
  IF w.state = None THEN [set_state |-> FALSE, w |-> w]
  ELSE IF fallback_source /\ w.state.fallback_source = None
  THEN [set_state |-> FALSE, w |-> w]
  ELSE
    LET source == Src(w.state, fallback_source) IN
    IF StateOrd(transition[1]) <= StateOrd(transition[2]) /\ source.pending_restart
    THEN [set_state |-> FALSE, w |-> w]
    ELSE IF StateOrd(transition[2]) <= StateOrd("Ready") /\ source.pending_restart
    THEN [set_state |-> TRUE,
          w |-> [w EXCEPT !.state = SetSrc(@, fallback_source,
                   [source EXCEPT !.pending_restart = FALSE,
                                  !.pending_restart_timeout = None])]]
    ELSE [set_state |-> TRUE, w |-> w]

\* change_source_state whose error branch only stops the source.
change_source_state_result_gives_up(w, transition, fallback_source, res) ==
  IF res \in {"Error", "Stuck"}
  THEN IF transition # <<"Ready", "Null">>
       THEN IF w.host.source_weak /\ res = "Error"
            THEN set_state(w, fallback_source, "Null") ELSE w
       ELSE w
  ELSE
    LET w1 == IF w.host.source_weak
              THEN set_state(w, fallback_source, transition[2]) ELSE w
    IN IF w1.state = None THEN Panic(w1)
       ELSE IF Src(w1.state, fallback_source) = None THEN w1
       ELSE
         LET source0 == Src(w1.state, fallback_source)
             is_live == IF transition = <<"Ready", "Paused">>
                        THEN res = "NoPreroll" ELSE source0.is_live
             source == [source0 EXCEPT !.is_live = is_live]
             w2 == [w1 EXCEPT !.state = SetSrc(@, fallback_source, source)]
         IN IF \/ (~is_live /\ transition = <<"Ready", "Paused">>)
               \/ (is_live /\ transition = <<"Paused", "Playing">>)
            THEN LET w3 == IF ~fallback_source
                           THEN [w2 EXCEPT !.state.schedule_restart_on_unblock = TRUE]
                           ELSE w2
                 IN IF source.restart_timeout = None
                    THEN schedule_source_restart_timeout(w3, 0, fallback_source)
                    ELSE w3
            ELSE IF \/ (~is_live /\ transition = <<"Paused", "Ready">>)
                    \/ (is_live /\ transition = <<"Playing", "Paused">>)
            THEN [w2 EXCEPT !.state = SetSrc(@, fallback_source,
                    [source EXCEPT !.pending_restart_timeout = None,
                                   !.retry_timeout = None,
                                   !.restart_timeout = None])]
            ELSE w2

\* The result of source.set_state() and the second critical section.  res
\* is "Stuck" when set_state(transition.next()) fails and the set_state(Null)
\* that follows, whose result is ignored, fails as well: the source stays
\* as it is.
change_source_state_result(w, transition, fallback_source, res) ==
  IF res \in {"Error", "Stuck"}
  THEN IF transition # <<"Ready", "Null">>
       THEN LET w1 == IF w.host.source_weak /\ res = "Error"
                      THEN set_state(w, fallback_source, "Null") ELSE w
            IN IF w1.state = None THEN Panic(w1)
               ELSE handle_source_error(w1, "StateChangeFailure", fallback_source)
       ELSE w
  ELSE
    LET w1 == IF w.host.source_weak
              THEN set_state(w, fallback_source, transition[2]) ELSE w
    IN IF w1.state = None THEN Panic(w1)
       ELSE IF Src(w1.state, fallback_source) = None THEN w1
       ELSE
         LET source0 == Src(w1.state, fallback_source)
             is_live == IF transition = <<"Ready", "Paused">>
                        THEN res = "NoPreroll" ELSE source0.is_live
             source == [source0 EXCEPT !.is_live = is_live]
             w2 == [w1 EXCEPT !.state = SetSrc(@, fallback_source, source)]
         IN IF \/ (~is_live /\ transition = <<"Ready", "Paused">>)
               \/ (is_live /\ transition = <<"Paused", "Playing">>)
            THEN LET w3 == IF ~fallback_source
                           THEN [w2 EXCEPT !.state.schedule_restart_on_unblock = TRUE]
                           ELSE w2
                 IN IF source.restart_timeout = None
                    THEN schedule_source_restart_timeout(w3, 0, fallback_source)
                    ELSE w3
            ELSE IF \/ (~is_live /\ transition = <<"Paused", "Ready">>)
                    \/ (is_live /\ transition = <<"Playing", "Paused">>)
            THEN [w2 EXCEPT !.state = SetSrc(@, fallback_source,
                    [source EXCEPT !.pending_restart_timeout = None,
                                   !.retry_timeout = None,
                                   !.restart_timeout = None])]
            ELSE w2

\* ================================================================ actions
\* Inputs of the environment.
Percents == {50, 100}
Collections ==
  { [audio |-> TRUE, video |-> TRUE], [audio |-> TRUE, video |-> FALSE],
    [audio |-> FALSE, video |-> TRUE] }
Timestamps == {None, Some(0), Some(MaxRunningTime)}
Segments ==
  { None, [start |-> 0, stop |-> None], [start |-> 1, stop |-> Some(MaxRunningTime)] }

Idle(h, cur) == [h EXCEPT !.cur = cur, !.next = cur, !.pc = "idle", !.source_weak = FALSE]

WithinBounds(w) ==
  /\ BagCardinality(w.tasks) <= limits.tasks
  /\ BagCardinality(w.clock) <= limits.clock
  /\ w.host.starts <= limits.starts
  /\ w.state # None => /\ w.state.stats.num_retry <= limits.retry
                       /\ w.state.stats.num_fallback_retry <= limits.retry

Commit(w) ==
  /\ WithinBounds(w)
  /\ state' = w.state
  /\ tasks' = w.tasks
  /\ clock' = w.clock
  /\ panicked' = w.panicked
  /\ host' = w.host
  /\ current_running_time' = w.current_running_time
  /\ UNCHANGED <<settings, limits>>

TakeTask(t) == [World EXCEPT !.tasks = @ (-) SetToBag({t})]

\* ----------------------------------------------- ElementImpl::change_state
\* What change_state returns when it gets to its end.
Returned(transition) ==
  IF transition \in {<<"Ready", "Paused">>, <<"Playing", "Paused">>}
  THEN "NoPreroll" ELSE "Success"

\* change_state returns Err: start() or the parent's state change failed.
Failed(w) == [w EXCEPT !.host.ret = "Error"]

\* The end of change_state: stop() on ReadyToNull.  The element has a
\* running time once it has been PLAYING.
ChangeStateEnd(w, transition) ==
  LET w1 == IF transition = <<"Ready", "Null">> THEN stop(w) ELSE w
  IN [w1 EXCEPT !.host = [Idle(@, transition[2]) EXCEPT !.ret = Returned(transition)],
                !.current_running_time =
                   IF transition[2] = "Playing" /\ @ = None THEN Some(0) ELSE @]

\* change_source_state(transition, true) up to its source.set_state().
ChangeFallbackSourceState(w, transition) ==
  LET b == change_source_state(w, transition, TRUE)
  IN IF b.set_state
     THEN [b.w EXCEPT !.host.pc = "fallback", !.host.source_weak = TRUE]
     ELSE ChangeStateEnd(b.w, transition)

\* change_source_state(transition, false) up to its source.set_state().
ChangeMainSourceState(w, transition) ==
  LET a == change_source_state(w, transition, FALSE)
  IN IF a.set_state
     THEN [a.w EXCEPT !.host.pc = "source", !.host.source_weak = TRUE]
     ELSE ChangeFallbackSourceState(a.w, transition)

ChangeStateBegin(transition, parent_ok) ==
  /\ ~panicked
  /\ host.pc = "idle"
  /\ transition[1] = host.cur
  /\ LET r == IF transition = <<"Null", "Ready">> THEN start(World)
              ELSE [ok |-> TRUE, w |-> World]
         w1 == IF transition = <<"Null", "Ready">> /\ r.ok
               THEN [r.w EXCEPT !.host.starts = @ + 1] ELSE r.w
     IN IF ~r.ok THEN Commit(Failed(World))
        ELSE IF ~parent_ok THEN Commit(Failed(w1))
        ELSE Commit(ChangeMainSourceState(
                      [w1 EXCEPT !.host.next = transition[2]], transition))

ChangeStateSource(res) ==
  /\ ~panicked
  /\ host.pc = "source"
  /\ LET transition == <<host.cur, host.next>>
     IN Commit(ChangeFallbackSourceState(
                 change_source_state_result(World, transition, FALSE, res),
                 transition))

ChangeStateFallback(res) ==
  /\ ~panicked
  /\ host.pc = "fallback"
  /\ LET transition == <<host.cur, host.next>>
     IN Commit(ChangeStateEnd(
                 change_source_state_result(World, transition, TRUE, res),
                 transition))

\* --------------------------------------------- callbacks of the sources
\* A source bin streams (adds pads, blocks, posts buffering and collection
\* messages) from PAUSED on.
BinRunning(source) ==
  source # None /\ StateOrd(source.source.cur_state) >= StateOrd("Paused")

\* A source bin can post an error while it streams and while one of its
\* state changes is in progress.
SourceActive(fallback_source) ==
  /\ state # None
  /\ Src(state, fallback_source) # None
  /\ \/ BinRunning(Src(state, fallback_source))
     \/ /\ host.pc = (IF fallback_source THEN "fallback" ELSE "source")
        /\ host.source_weak
     \/ \E t \in BagToSet(tasks) :
          t.pc = "sync" /\ t.fallback_source = fallback_source /\ t.source_weak

\* The container a message comes from exists and is in a state to post it.
Posting(origin, streaming) ==
  \/ origin = "other"
  \/ /\ origin \in {"main", "fallback"}
     /\ state # None
     /\ IF streaming THEN BinRunning(Src(state, origin = "fallback"))
        ELSE SourceActive(origin = "fallback")

SourcePadAdded(pad, is_image, fallback_source) ==
  /\ ~panicked
  /\ state # None
  /\ BinRunning(Src(state, fallback_source))
  /\ pad \notin Src(state, fallback_source).source.pads
  /\ is_image => IsVideoPad(pad)
  /\ LET w1 == [World EXCEPT !.state = SetSrc(@, fallback_source,
                  [Src(@, fallback_source) EXCEPT !.source.pads = @ \cup {pad}])]
     IN Commit(handle_source_pad_added(w1, pad, is_image, fallback_source))

SourcePadRemoved(pad, fallback_source) ==
  /\ ~panicked
  /\ state # None
  /\ Src(state, fallback_source) # None
  /\ pad \in Src(state, fallback_source).source.pads
  /\ LET w1 == [World EXCEPT !.state = SetSrc(@, fallback_source,
                  [Src(@, fallback_source) EXCEPT !.source.pads = @ \ {pad}])]
     IN Commit(handle_source_pad_removed(w1, pad, fallback_source))

HasBlock(st, is_video, fallback_source) ==
  /\ BranchOf(StreamOf(st, is_video), fallback_source) # None
  /\ BranchOf(StreamOf(st, is_video), fallback_source).source_srcpad_block # None

PadBlocked(is_video, pts, segment, fallback_source) ==
  /\ ~panicked
  /\ state # None
  /\ BinRunning(Src(state, fallback_source))
  /\ HasBlock(state, is_video, fallback_source)
  /\ Commit(handle_pad_blocked(World, is_video, pts, segment, fallback_source))

SourcePadEos(is_video, fallback_source) ==
  /\ ~panicked
  /\ state # None
  /\ BinRunning(Src(state, fallback_source))
  /\ BranchOf(StreamOf(state, is_video), fallback_source) # None
  /\ ~BranchOf(StreamOf(state, is_video), fallback_source).eos
  /\ Commit(eos_probe(World, is_video, fallback_source))

\* ------------------------------------------------ BinImpl::handle_message
BufferingMessage(origin, percent) ==
  /\ ~panicked
  /\ Posting(origin, TRUE)
  /\ Commit(handle_buffering(World, origin, percent))

StreamsSelectedMessage(origin, streams) ==
  /\ ~panicked
  /\ Posting(origin, TRUE)
  /\ Commit(handle_streams_selected(World, origin, streams))

ErrorMessage(origin) ==
  /\ ~panicked
  /\ Posting(origin, FALSE)
  /\ Commit(handle_error(World, origin).w)

\* ------------------------------------------------------- signals, notify
UnblockSignal ==
  /\ ~panicked
  /\ Commit(unblock(World))

\* The switch of a stream selects another of its inputs and notifies
\* "active-pad"; it runs while the element is in PAUSED or PLAYING.
SwitchInputs(stream) ==
  {2} \cup (IF stream.main_branch # None THEN {0} ELSE {})
      \cup (IF stream.fallback_branch # None THEN {1} ELSE {})

SwitchActivePad(is_video, priority) ==
  /\ ~panicked
  /\ state # None
  /\ StateOrd(ParentState(host)) >= StateOrd("Paused")
  /\ StreamOf(state, is_video) # None
  /\ priority \in SwitchInputs(StreamOf(state, is_video))
  /\ StreamOf(state, is_video).active_pad # Some(priority)
  /\ LET w1 == [World EXCEPT !.state = SetStream(@, is_video,
                  [StreamOf(@, is_video) EXCEPT !.active_pad = Some(priority)])]
     IN Commit(handle_switch_active_pad_change(w1))

\* -------------------------------------------------------- clock callbacks
RestartTimeoutFires ==
  /\ ~panicked
  /\ state # None
  /\ state.source.restart_timeout # None
  /\ ~state.source.restart_timeout.fired
  /\ state.source.restart_timeout.remaining = 0
  /\ Commit(call_async([World EXCEPT !.state.source.restart_timeout.fired = TRUE],
                       Task("restart_timeout", FALSE, "triggered")))

PendingRestartTimeoutFires(fallback_source) ==
  /\ ~panicked
  /\ state # None
  /\ Src(state, fallback_source) # None
  /\ Src(state, fallback_source).pending_restart_timeout # None
  /\ ~Src(state, fallback_source).pending_restart_timeout.fired
  /\ Src(state, fallback_source).pending_restart_timeout.remaining = 0
  /\ Commit(call_async(
       [World EXCEPT !.state = SetSrc(@, fallback_source,
          [Src(@, fallback_source) EXCEPT !.pending_restart_timeout.fired = TRUE])],
       Task("restart", fallback_source, "restart")))

\* An entry whose ClockId was dropped still calls its callback.
DroppedEntryFires(e) ==
  /\ ~panicked
  /\ BagIn(e, clock)
  /\ e.remaining = 0
  /\ Commit(call_async([World EXCEPT !.clock = @ (-) SetToBag({e})],
       [Task(IF e.purpose = "restart" THEN "restart_timeout" ELSE "restart",
             e.fallback_source,
             IF e.purpose = "restart" THEN "triggered" ELSE "restart")
        EXCEPT !.before_stop = e.before_stop]))

\* --------------------------------------------------- call_async closures
RunTaskIn(w, t, ok) ==
  CASE t.kind = "source_error" /\ t.pc = "remove_blocks" -> source_error_shutdown(w, t)
    [] t.kind = "source_error" /\ t.pc = "cool_down" -> source_error_cool_down(w, t)
    [] t.kind = "restart" /\ t.pc = "restart" -> restart_source(w, t)
    [] t.kind = "restart" /\ t.pc = "sync" -> restart_sync(w, t, ok)
    [] t.kind = "restart_timeout" -> restart_timeout_triggered(w)

RunTask(t, ok) ==
  /\ ~panicked
  /\ BagIn(t, tasks)
  /\ Commit(RunTaskIn(TakeTask(t), t, ok))

\* ------------------------------------------------------------------ time
Later(remaining) == IF remaining > 0 THEN remaining - 1 ELSE 0
Older(age) ==
  IF age = None THEN None
  ELSE Some(IF age.some < RestartTimeout THEN age.some + 1 ELSE age.some)
LaterId(id) == IF id = None THEN None ELSE [id EXCEPT !.remaining = Later(@)]
LaterEntry(e) == [e EXCEPT !.remaining = Later(@)]
LaterEntries(B) == BagImage(B, [e \in BagToSet(B) |-> LaterEntry(e)])
LaterSource(source) ==
  IF source = None THEN None
  ELSE [source EXCEPT !.restart_timeout = LaterId(@),
                      !.pending_restart_timeout = LaterId(@)]

\* One unit of the system clock and of Instant::now() passes.
Tick ==
  /\ ~panicked
  /\ state' = IF state = None THEN None
              ELSE [state EXCEPT !.source = LaterSource(@),
                                 !.fallback_source = LaterSource(@),
                                 !.last_buffering_update = Older(@),
                                 !.fallback_last_buffering_update = Older(@)]
  /\ clock' = LaterEntries(clock)
  /\ <<state', clock'>> # <<state, clock>>
  /\ UNCHANGED <<settings, host, tasks, panicked, current_running_time, limits>>

\* The pipeline clock advances while the element has a running time.
RunningTimeAdvances ==
  /\ ~panicked
  /\ current_running_time # None
  /\ current_running_time.some < MaxRunningTime
  /\ current_running_time' = Some(current_running_time.some + 1)
  /\ UNCHANGED <<settings, state, host, tasks, clock, panicked, limits>>

\* --------------------------------------------------------- specifications
Configuration ==
  [enable_audio |-> FALSE, enable_video |-> FALSE, uri |-> TRUE,
   source |-> FALSE, fallback_uri |-> FALSE, restart_on_eos |-> FALSE,
   manual_unblock |-> FALSE]

InitWith(configuration, bounds) ==
  /\ settings = configuration
  /\ limits = bounds
  /\ state = None
  /\ host = [cur |-> "Null", next |-> "Null", pc |-> "idle",
             source_weak |-> FALSE, starts |-> 0, ret |-> "None",
             update_uri |-> "None", probes_left |-> FALSE]
  /\ tasks = EmptyBag
  /\ clock = EmptyBag
  /\ current_running_time = None
  /\ panicked = FALSE

Scope(retry, ntasks, nclock, starts) ==
  [retry |-> retry, tasks |-> ntasks, clock |-> nclock, starts |-> starts]

Upward == { <<"Null", "Ready">>, <<"Ready", "Paused">>, <<"Paused", "Playing">> }

Lifecycle ==
  \/ \E transition \in Transitions : ChangeStateBegin(transition, TRUE)
  \/ \E res \in {"Success", "NoPreroll", "Error"} : ChangeStateSource(res)

Tasks == \E t \in BagToSet(tasks), ok \in BOOLEAN : RunTask(t, ok)

DroppedEntries == \E e \in BagToSet(clock) : DroppedEntryFires(e)

\* ------------------------------------------------- restart sequences (C1)
Wide == Scope(MaxRetry, MaxTasks, MaxClock, NarrowStarts)
Narrow == Scope(NarrowRetry, NarrowTasks, NarrowClock, NarrowStarts)

Init == InitWith(Configuration, Wide)

Next ==
  \/ Lifecycle
  \/ ErrorMessage("main")
  \/ Tasks
  \/ RestartTimeoutFires
  \/ PendingRestartTimeoutFires(FALSE)
  \/ DroppedEntries
  \/ Tick

Spec == Init /\ [][Next]_vars

\* The number of copies the bag B holds of the elements of S.
CountIn(B, S) == BagCardinality([e \in S |-> B[e]])

UnfiredId(id) == IF id = None THEN FALSE ELSE ~id.fired

\* The parts of the restart sequences of a source that have still to run
\* while pending_restart guards them: queued shutdown and cool-down
\* closures, scheduled cool-down timers, queued continuations.
GuardedTask(t, fallback_source) ==
  /\ t.fallback_source = fallback_source
  /\ ~t.before_stop
  /\ t.kind = "source_error" \/ (t.kind = "restart" /\ t.pc = "restart")

CoolDownEntry(e, fallback_source) ==
  /\ e.fallback_source = fallback_source
  /\ ~e.before_stop
  /\ e.purpose = "pending_restart"

SequencesInFlight(fallback_source) ==
  LET source == IF state = None THEN None ELSE Src(state, fallback_source)
  IN CountIn(tasks, { t \in BagToSet(tasks) : GuardedTask(t, fallback_source) })
     + CountIn(clock, { e \in BagToSet(clock) : CoolDownEntry(e, fallback_source) })
     + (IF source # None /\ UnfiredId(source.pending_restart_timeout) THEN 1 ELSE 0)

\* C1: at most one restart sequence per source is in flight at any time:
\* of the closures, cool-down timers and continuations that pending_restart
\* guards, at most one is queued or scheduled per source.
C1_OneSequenceInFlight == \A fallback_source \in BOOLEAN : SequencesInFlight(fallback_source) <= 1

\* -------------------------------------------------------- stop() (C2, C3)
InitStop == InitWith(Configuration, Narrow)

InitRestarted ==
  InitWith(Configuration, Scope(NarrowRetry, NarrowTasks, MaxClock, MaxStarts))

NextStop ==
  \/ \E transition \in Transitions : ChangeStateBegin(transition, TRUE)
  \/ ChangeStateSource("Success")
  \/ ErrorMessage("main")
  \/ Tasks
  \/ RestartTimeoutFires
  \/ PendingRestartTimeoutFires(FALSE)
  \/ Tick

SpecRestarted == InitRestarted /\ [][NextStop]_vars

\* The element is taken up to PAUSED and down again; its restart-timeout
\* starts the restart sequences.
NextPaused ==
  \/ \E transition \in Transitions \ {<<"Paused", "Playing">>} :
       ChangeStateBegin(transition, TRUE)
  \/ ChangeStateSource("Success")
  \/ Tasks
  \/ RestartTimeoutFires
  \/ PendingRestartTimeoutFires(FALSE)
  \/ Tick

SpecStop == InitStop /\ [][NextPaused]_vars

\* C2: stop() on a stopped supervisor changes nothing, and stop() after
\* stop() leaves what a single stop() leaves.
C2_StopIdempotent ==
  /\ state = None => stop(World) = World
  /\ stop(stop(World)) = stop(World)

\* Stopped, with a closure of the stopped run still queued.
C2_Witness == state = None /\ host.starts > 0 /\ tasks # EmptyBag

\* C3: after stop() no timer registered before it is still scheduled, and
\* a closure created before it changes nothing when it runs, also not in a
\* state object of a later start().
C3_NoEffectAfterStop ==
  /\ [](\A e \in BagToSet(clock) : ~e.before_stop)
  /\ [][\A t \in BagToSet(tasks) :
          (t.before_stop /\ \E ok \in BOOLEAN : RunTask(t, ok))
            => (state' = state /\ panicked' = panicked)]_vars

\* ------------------------------------------- restart-timeout (C8, C9)
AudioOnly == [audio |-> TRUE, video |-> FALSE]

InitTimeout ==
  InitWith([Configuration EXCEPT !.enable_audio = TRUE],
           Narrow)

NextTimeout ==
  \/ \E transition \in Upward : ChangeStateBegin(transition, TRUE)
  \/ ChangeStateSource("Success")
  \/ StreamsSelectedMessage("main", AudioOnly)
  \/ SourcePadAdded("audio_0", FALSE, FALSE)
  \/ SwitchActivePad(FALSE, 2)
  \/ \E percent \in Percents : BufferingMessage("main", percent)
  \/ ErrorMessage("main")
  \/ Tasks
  \/ RestartTimeoutFires
  \/ PendingRestartTimeoutFires(FALSE)
  \/ Tick

SpecTimeout == InitTimeout /\ [][NextTimeout]_vars

\* The closure a fired restart-timeout of the running supervisor queued runs.
TimeoutRuns(t) ==
  /\ t.kind = "restart_timeout"
  /\ RunTask(t, TRUE)
  /\ state # None
  /\ have_fallback_activated(state)

UpdateInWindow(st) ==
  IF st.last_buffering_update = None THEN FALSE
  ELSE st.last_buffering_update.some < RestartTimeout

ShutdownTask == Task("source_error", FALSE, "remove_blocks")

\* C8: when the restart-timeout has elapsed with the fallback activated and
\* no buffering update within the window, handle_source_error(Timeout) is
\* invoked once for the primary: one restart sequence is queued and a
\* num_retry of 0 becomes 1.
C8_TimeoutRestartsOnce ==
  [][\A t \in BagToSet(tasks) :
       (TimeoutRuns(t) /\ ~UpdateInWindow(state))
         => /\ state'.stats.last_retry_reason = "Timeout"
            /\ state'.source.pending_restart
            /\ state'.stats.num_retry =
                 IF state.source.pending_restart THEN state.stats.num_retry
                 ELSE state.stats.num_retry + 1
            /\ state.stats.num_retry = 0 =>
                 /\ state'.stats.num_retry = 1
                 /\ tasks' = (tasks (-) SetToBag({t})) (+) SetToBag({ShutdownTask})]_vars

\* The timeout has restarted a primary whose audio switch is on the dummy
\* input.
C8_Witness ==
  /\ state # None
  /\ state.stats.num_retry = 1
  /\ state.stats.last_retry_reason = "Timeout"
  /\ BagIn(ShutdownTask, tasks)
  /\ HaveAudio(state.source.streams)
  /\ state.audio_stream.active_pad = Some(2)

\* C9 as claimed: when the restart-timeout fires with the fallback activated
\* and the last buffering update within the window, no restart is started,
\* num_retry is unchanged and a new restart-timeout is scheduled for the
\* rest of the window.
C9_Claimed ==
  [][\A t \in BagToSet(tasks) :
       (TimeoutRuns(t) /\ UpdateInWindow(state))
         => /\ state'.stats = state.stats
            /\ tasks' = tasks (-) SetToBag({t})
            /\ state'.source.restart_timeout =
                 ClockId(RestartTimeout - state.last_buffering_update.some)]_vars

\* C9 amended: ... a new restart-timeout is scheduled for the rest of the
\* window unless the primary is pending restart, a still image or manually
\* blocked, in which case none is scheduled.
C9_ReschedulesWhileBuffering ==
  [][\A t \in BagToSet(tasks) :
       (TimeoutRuns(t) /\ UpdateInWindow(state))
         => /\ state'.stats = state.stats
            /\ state'.source.pending_restart = state.source.pending_restart
            /\ tasks' = tasks (-) SetToBag({t})
            /\ state'.source.restart_timeout =
                 IF \/ state.source.pending_restart
                    \/ state.source.is_image
                    \/ state.manually_blocked
                 THEN None
                 ELSE ClockId(RestartTimeout - state.last_buffering_update.some)]_vars

\* The closure of a fired restart-timeout is queued while the primary, not
\* pending restart, had a buffering update one unit ago.
C9_Witness ==
  /\ state # None
  /\ \E t \in BagToSet(tasks) : t.kind = "restart_timeout"
  /\ have_fallback_activated(state)
  /\ HaveAudio(state.source.streams)
  /\ ~state.source.pending_restart
  /\ state.last_buffering_update = Some(1)

\* ------------------------------------------------- still images (C4)
InitImage ==
  InitWith([Configuration EXCEPT !.enable_audio = TRUE, !.enable_video = TRUE,
                                 !.restart_on_eos = TRUE],
           Narrow)

NextImage ==
  \/ \E transition \in Upward : ChangeStateBegin(transition, TRUE)
  \/ ChangeStateSource("Success")
  \/ \E pad \in {"audio_0", "video_0"}, is_image \in BOOLEAN :
       SourcePadAdded(pad, is_image, FALSE)
  \/ \E is_video \in BOOLEAN : SourcePadEos(is_video, FALSE)
  \/ Tasks
  \/ RestartTimeoutFires
  \/ PendingRestartTimeoutFires(FALSE)
  \/ Tick

SpecImage == InitImage /\ [][NextImage]_vars

IsImageSource(fallback_source) ==
  /\ state # None
  /\ Src(state, fallback_source) # None
  /\ Src(state, fallback_source).is_image

\* C4: a source classified as a still image has no restart-timeout
\* scheduled, and an EOS on one of its pads starts no restart: the retry
\* statistics stay as they are and no closure is queued.
C4_ImageNeverRestarts ==
  /\ [](\A fallback_source \in BOOLEAN :
          IsImageSource(fallback_source)
            => Src(state, fallback_source).restart_timeout = None)
  /\ [][\A is_video \in BOOLEAN, fallback_source \in BOOLEAN :
          (IsImageSource(fallback_source) /\ SourcePadEos(is_video, fallback_source))
            => (state'.stats = state.stats /\ tasks' = tasks)]_vars

\* ------------------------------------------------ active input (C5)
Both == [audio |-> TRUE, video |-> TRUE]

InitSwitch ==
  InitWith([Configuration EXCEPT !.enable_audio = TRUE, !.enable_video = TRUE],
           Narrow)

NextSwitch ==
  \/ \E transition \in Upward : ChangeStateBegin(transition, TRUE)
  \/ ChangeStateSource("Success")
  \/ \E streams \in {Both, AudioOnly} : StreamsSelectedMessage("main", streams)
  \/ \E pad \in {"audio_0", "video_0"} : SourcePadAdded(pad, FALSE, FALSE)
  \/ \E is_video \in BOOLEAN, priority \in {0, 2} : SwitchActivePad(is_video, priority)
  \/ Tasks
  \/ RestartTimeoutFires
  \/ PendingRestartTimeoutFires(FALSE)
  \/ Tick

SpecSwitch == InitSwitch /\ [][NextSwitch]_vars

ActiveInput(is_video) ==
  IF state = None \/ StreamOf(state, is_video) = None THEN None
  ELSE StreamOf(state, is_video).active_pad

InitUnblock ==
  InitWith([Configuration EXCEPT !.enable_audio = TRUE, !.enable_video = TRUE,
                                 !.manual_unblock = TRUE],
           Narrow)

\* The primary streams: buffers arrive in an open segment from 0.
Streaming(timestamps) ==
  \/ \E streams \in {Both, AudioOnly} : StreamsSelectedMessage("main", streams)
  \/ \E pad \in {"audio_0", "video_0"} : SourcePadAdded(pad, FALSE, FALSE)
  \/ \E is_video \in BOOLEAN, pts \in timestamps :
       PadBlocked(is_video, pts, [start |-> 0, stop |-> None], FALSE)
  \/ \E percent \in Percents : BufferingMessage("main", percent)

NextUnblock ==
  \/ \E transition \in Upward : ChangeStateBegin(transition, TRUE)
  \/ ChangeStateSource("Success")
  \/ Streaming({Some(0), Some(MaxRunningTime)})
  \/ \E is_video \in BOOLEAN : SourcePadEos(is_video, FALSE)
  \/ UnblockSignal
  \/ RunningTimeAdvances

SpecUnblock == InitUnblock /\ [][NextUnblock]_vars

Released(w, w1, is_video, fallback_source) ==
  /\ HasBlock(w.state, is_video, fallback_source)
  /\ ~HasBlock(w1.state, is_video, fallback_source)
  /\ ~BranchOf(StreamOf(w1.state, is_video), fallback_source).eos

OffsetOf(w, is_video, fallback_source) ==
  BranchOf(StreamOf(w.state, is_video), fallback_source).offset

\* C6: in every state of a running element unblock_pads completes, the
\* branches it releases together get the same pad offset, and a second
\* invocation changes nothing.
C6_UnblocksOnce ==
  \A fallback_source \in BOOLEAN :
    (state # None /\ ~panicked /\ Src(state, fallback_source) # None)
      => LET w1 == unblock_pads(World, fallback_source) IN
         /\ ~w1.panicked
         /\ (Released(World, w1, FALSE, fallback_source)
               /\ Released(World, w1, TRUE, fallback_source))
              => OffsetOf(w1, FALSE, fallback_source) = OffsetOf(w1, TRUE, fallback_source)
         /\ unblock_pads(w1, fallback_source) = w1

MainOffsets(st) ==
  { StreamOf(st, is_video).main_branch.offset :
      is_video \in { v \in BOOLEAN : /\ StreamOf(st, v) # None
                                     /\ StreamOf(st, v).main_branch # None } }

\* C7: while the element is manually blocked unblock_pads leaves the
\* primary's branches alone and none of them has a pad offset; the unblock
\* command completes, ends the manual block and releases what can be
\* released, so that unblock_pads has nothing left to do.
C7_ManualUnblockGate ==
  /\ []((state # None /\ state.manually_blocked /\ ~panicked)
          => /\ unblock_pads(World, FALSE) = World
             /\ MainOffsets(state) \subseteq {None})
  /\ [][UnblockSignal
          => /\ ~panicked'
             /\ state' # None
                  => /\ ~state'.manually_blocked
                     /\ unblock_pads(World', FALSE) = World']_vars

\* ------------------------------------------------------- status (C10)
InitStatus ==
  InitWith([Configuration EXCEPT !.enable_audio = TRUE, !.enable_video = TRUE],
           Narrow)

NextStatus ==
  \/ \E transition \in Upward : ChangeStateBegin(transition, TRUE)
  \/ ChangeStateSource("Success")
  \/ Streaming({Some(0)})
  \/ \E is_video \in BOOLEAN : SwitchActivePad(is_video, 0)
  \/ Tasks
  \/ RestartTimeoutFires
  \/ PendingRestartTimeoutFires(FALSE)
  \/ Tick

SpecStatus == InitStatus /\ [][NextStatus]_vars

Reported(st) ==
  st.source.streams = Some(Both).some /\ st.stats.buffering_percent = 100

\* C10 as claimed: the status is Buffering until the primary has reported
\* a collection with both kinds and 100% buffering, and Running from then.
C10_Claimed ==
  state # None
    => status(state) = IF Reported(state) THEN "Running" ELSE "Buffering"

Retrying(source) ==
  \/ source.pending_restart
  \/ source.pending_restart_timeout # None
  \/ source.retry_timeout # None

Flowing(st, is_video) ==
  /\ StreamOf(st, is_video) # None
  /\ StreamOf(st, is_video).main_branch # None
  /\ StreamOf(st, is_video).main_branch.source_srcpad_block = None

\* C10 amended: the status is Retrying while a restart of the primary is
\* pending; otherwise it is Running when the primary has reported a
\* collection and 100% buffering, no restart-timeout is scheduled and the
\* main branch of every kind of the collection is there and unblocked, and
\* Buffering when not.
C10_StatusFollowsPrimary ==
  state # None
    => status(state) =
         IF Retrying(state.source) THEN "Retrying"
         ELSE IF /\ state.source.streams # None
                 /\ state.stats.buffering_percent = 100
                 /\ state.source.restart_timeout = None
                 /\ state.source.streams.audio => Flowing(state, FALSE)
                 /\ state.source.streams.video => Flowing(state, TRUE)
         THEN "Running"
         ELSE "Buffering"

\* Both kinds of the collection flow from the primary.
C10_Witness ==
  /\ state # None
  /\ Reported(state)
  /\ Flowing(state, FALSE)
  /\ Flowing(state, TRUE)
  /\ status(state) = "Running"

\* ------------------------------------------------- start() (C11, C12)
InitStart ==
  \E uri \in BOOLEAN, source \in BOOLEAN :
    InitWith([Configuration EXCEPT !.uri = uri, !.source = source], Narrow)

NextStart ==
  \/ \E transition \in {<<"Null", "Ready">>, <<"Ready", "Null">>}, parent_ok \in BOOLEAN :
       ChangeStateBegin(transition, parent_ok)
  \/ \E res \in {"Success", "Error"} : ChangeStateSource(res)
  \/ Tasks
  \/ PendingRestartTimeoutFires(FALSE)
  \/ Tick

SpecStart == InitStart /\ [][NextStart]_vars

Unconfigured == ~settings.uri /\ ~settings.source

\* C11: with neither a URI nor a source element configured the element
\* never gets a state object: its status is Stopped, it stays in NULL, no
\* start() has succeeded, and no closure or timer exists that would try
\* again.
C11_UnconfiguredNeverStarts ==
  Unconfigured
    => /\ state = None
       /\ status(state) = "Stopped"
       /\ host.cur = "Null"
       /\ host.starts = 0
       /\ host.ret \in {"None", "Error"}
       /\ tasks = EmptyBag
       /\ clock = EmptyBag

\* start() was called without a configuration and returned an error.
C11_Witness == Unconfigured /\ host.ret = "Error" /\ state = None

\* C12: a start() has succeeded only with exactly one of URI and source
\* element configured.
C12_ExactlyOneConfiguration ==
  host.starts > 0 => settings.uri # settings.source

\* ------------------------------------------- status while retrying (C13)
\* The element goes up to PAUSED and down again; its source may fail a
\* state change.
NextRecovery ==
  \/ \E transition \in Transitions \ {<<"Paused", "Playing">>} :
       ChangeStateBegin(transition, TRUE)
  \/ \E res \in {"Success", "Error"} : ChangeStateSource(res)
  \/ Tasks
  \/ PendingRestartTimeoutFires(FALSE)
  \/ Tick

SpecRecovery == InitStop /\ [][NextRecovery]_vars

\* C13 as claimed: while a part of a restart sequence of the primary is queued or
\* scheduled (a closure, the cool-down timer or the continuation that
\* recreates or resumes the source), the status is Retrying.
C13_RetryingWhileRecovering ==
  (state # None /\ SequencesInFlight(FALSE) >= 1) => status(state) = "Retrying"

PendingRestart(st) == st # None /\ st.source.pending_restart

\* The continuation after the cool-down recreates or resumes the primary.
Restarted ==
  \E t \in BagToSet(tasks), ok \in BOOLEAN :
    /\ t.kind = "restart" /\ t.pc = "restart" /\ ~t.fallback_source
    /\ RunTask(t, ok)

\* The host takes the element down to READY or NULL.
ShutDown ==
  \E transition \in {<<"Paused", "Ready">>, <<"Ready", "Null">>} :
    ChangeStateBegin(transition, TRUE)

\* C13 amended: the status is Retrying as long as the primary is pending
\* restart or its cool-down timer is stored, and pending_restart, once set,
\* is cleared in a running element only by the continuation that
\* recreates or resumes the source or by a host transition down to READY
\* or NULL, which abandons the recovery.
C13_RetryingUntilRestartedOrShutDown ==
  /\ []((PendingRestart(state) \/ (state # None /\ state.source.pending_restart_timeout # None))
          => status(state) = "Retrying")
  /\ [][(PendingRestart(state) /\ state' # None /\ ~PendingRestart(state'))
          => (Restarted \/ ShutDown)]_vars

\* The shutdown closure has run and the cool-down has still to come.
C13_Witness ==
  /\ PendingRestart(state)
  /\ BagIn(Task("source_error", FALSE, "cool_down"), tasks)
  /\ status(state) = "Retrying"

\* ------------------------------------------------ error messages (C14)
InitErrors == InitWith([Configuration EXCEPT !.fallback_uri = TRUE], Narrow)

Origins == {"main", "fallback", "other"}

NextErrors ==
  \/ \E transition \in {<<"Null", "Ready">>, <<"Ready", "Paused">>} :
       ChangeStateBegin(transition, TRUE)
  \/ ChangeStateSource("Success")
  \/ ChangeStateFallback("Success")
  \/ \E origin \in Origins : ErrorMessage(origin)
  \/ Tasks
  \/ \E fallback_source \in BOOLEAN : PendingRestartTimeoutFires(fallback_source)
  \/ Tick

SpecErrors == InitErrors /\ [][NextErrors]_vars

FromSource(origin) ==
  /\ state # None
  /\ origin = "main" \/ (origin = "fallback" /\ state.fallback_source # None)

ReasonOf(st, fallback_source) ==
  IF fallback_source THEN st.stats.last_fallback_retry_reason
  ELSE st.stats.last_retry_reason

\* C14: an error message is consumed exactly when the element has a state
\* and the message comes from inside the primary or the fallback source;
\* it then goes to handle_source_error of that source, which records the
\* reason Error and leaves the source pending restart, also when it was
\* pending already.  Any other error message is passed on and changes
\* nothing.
C14_SourceErrorsConsumed ==
  /\ [](\A origin \in Origins :
          LET r == handle_error(World, origin)
              fallback_source == origin = "fallback"
          IN /\ r.handled = FromSource(origin)
             /\ ~r.handled => r.w = World
             /\ r.handled
                  => /\ ReasonOf(r.w.state, fallback_source) = "Error"
                     /\ Src(r.w.state, fallback_source).pending_restart
                     /\ Src(state, fallback_source).pending_restart
                          => /\ r.w.tasks = tasks
                             /\ r.w.state.stats.num_retry = state.stats.num_retry)
  /\ [][\A origin \in Origins :
          (ErrorMessage(origin) /\ ~FromSource(origin)) => UNCHANGED vars]_vars

\* The primary is pending restart after an error message and can post the
\* next one, and the fallback source exists.
C14_Witness ==
  /\ state # None
  /\ state.fallback_source # None
  /\ state.source.pending_restart
  /\ state.stats.last_retry_reason = "Error"
  /\ SourceActive(FALSE)

\* ------------------------------------------------- retry-timeout (C15)
\* Enough retries for the source to fail for longer than RetryTimeout.
InitRetry ==
  InitWith(Configuration, Scope(RetryTimeout + 2, NarrowTasks, NarrowClock, NarrowStarts))

NextRetry ==
  \/ ChangeStateBegin(<<"Null", "Ready">>, TRUE)
  \/ \E res \in {"Success", "Error"} : ChangeStateSource(res)
  \/ ErrorMessage("main")
  \/ Tasks
  \/ PendingRestartTimeoutFires(FALSE)
  \/ Tick

SpecRetry == InitRetry /\ [][NextRetry]_vars

\* C15: the primary is not restarted any more once it has been failing
\* for longer than RetryTimeout.  A retry follows the one before it by a
\* cool-down at least, so a retry that comes more than RetryTimeout after
\* the first one is one too many.
C15_RetriesEndAfterBudget ==
  state # None => (state.stats.num_retry - 1) * CoolDown <= RetryTimeout

\* ---------------------------------------------- unblock command (C16)
InitManual ==
  InitWith([Configuration EXCEPT !.enable_audio = TRUE, !.manual_unblock = TRUE],
           Scope(NarrowRetry, NarrowTasks, MaxClock, NarrowStarts))

NextManual ==
  \/ \E transition \in Upward : ChangeStateBegin(transition, TRUE)
  \/ ChangeStateSource("Success")
  \/ UnblockSignal
  \/ StreamsSelectedMessage("main", AudioOnly)
  \/ SourcePadAdded("audio_0", FALSE, FALSE)
  \/ \E priority \in {0, 2} : SwitchActivePad(FALSE, priority)
  \/ ErrorMessage("main")
  \/ Tasks
  \/ RestartTimeoutFires
  \/ PendingRestartTimeoutFires(FALSE)
  \/ DroppedEntries
  \/ Tick

SpecManual == InitManual /\ [][NextManual]_vars

UnblockArms(st) ==
  /\ st.schedule_restart_on_unblock
  /\ have_fallback_activated(st)
  /\ ~st.source.pending_restart
  /\ ~st.source.is_image

Requested(fallback_source) ==
  /\ host'.pc = (IF fallback_source THEN "fallback" ELSE "source")
  /\ host.pc # host'.pc

StaysPending(fallback_source) ==
  /\ state # None /\ Src(state, fallback_source) # None
  /\ Src(state, fallback_source).pending_restart
  /\ state' # None /\ Src(state', fallback_source) # None
  /\ Src(state', fallback_source).pending_restart

\* C17: a host transition does not call set_state() on a source that is
\* pending restart and stays so.
C17_NoStateChangeWhilePending ==
  [][\A fallback_source \in BOOLEAN :
       StaysPending(fallback_source) => ~Requested(fallback_source)]_vars

\* ------------------------------------------ one timer per purpose (C18)
\* Restart-timeouts of the primary source that are scheduled at the clock,
\* through the stored id or through an id that was dropped without
\* unschedule(), or whose callback has been queued and has still to run.
RestartTimeoutsInFlight ==
  CountIn(clock, { e \in BagToSet(clock) :
             e.purpose = "restart" /\ ~e.fallback_source /\ ~e.before_stop })
  + CountIn(tasks, { t \in BagToSet(tasks) :
               t.kind = "restart_timeout" /\ ~t.fallback_source /\ ~t.before_stop })
  + (IF state # None /\ UnfiredId(state.source.restart_timeout) THEN 1 ELSE 0)

\* Cool-down timers of a source that are scheduled at the clock.
PendingRestartTimeoutsInFlight(fallback_source) ==
  LET source == IF state = None THEN None ELSE Src(state, fallback_source)
  IN CountIn(clock, { e \in BagToSet(clock) : CoolDownEntry(e, fallback_source) })
     + (IF source # None /\ UnfiredId(source.pending_restart_timeout) THEN 1 ELSE 0)

SequenceStep(t) == t.kind \in {"source_error", "restart"}

\* C19: a step of a restart sequence that runs while the element is stopped
\* does nothing: no state appears, no timer is scheduled, no closure is
\* queued, and the step does not fail on the missing state.
C19_StepsDoNothingWhenStopped ==
  [][\A t \in BagToSet(tasks) :
       (SequenceStep(t) /\ state = None /\ \E ok \in BOOLEAN : RunTask(t, ok))
         => /\ state' = None
            /\ ~panicked'
            /\ clock' = clock
            /\ tasks' = tasks (-) SetToBag({t})]_vars

\* ------------------------------------- callbacks and the lock (C20)
\* C20: the handlers of the update-uri signal, emitted when start() and the
\* recreation step construct the primary source, run with the state lock
\* released.
C20_UpdateUriWithLockReleased == host.update_uri # "Locked"

\* ------------------------------- restart-timeout and buffering (C21)
\* The primary is not still buffering, in the words of the claim: its last
\* buffering update is older than the window or its percentage is 100.
NotStillBuffering(st) ==
  \/ st.last_buffering_update # None /\ st.last_buffering_update.some >= RestartTimeout
  \/ st.stats.buffering_percent = 100

\* C21: when the closure of a fired restart-timeout runs with the fallback
\* activated and the primary is not still buffering, a restart with reason
\* Timeout is triggered; only otherwise is the decision postponed.
C21_RestartsUnlessStillBuffering ==
  [][\A t \in BagToSet(tasks) :
       TimeoutRuns(t)
         => IF NotStillBuffering(state)
            THEN /\ state'.stats.last_retry_reason = "Timeout"
                 /\ state'.source.pending_restart
            ELSE state'.stats = state.stats]_vars

\* ------------------------------------ unblock_pads, deferral (C22)
\* The gates of unblock_pads before it looks at the branches are open for
\* the primary.
GatesOpen(w) ==
  /\ w.state # None /\ ~w.panicked
  /\ w.current_running_time # None
  /\ ~w.state.manually_blocked
  /\ w.state.stats.buffering_percent = 100
  /\ w.state.source.streams # None

\* The stream kinds (is_video) the primary has and the element wants.
RequiredKinds(st) ==
  { is_video \in BOOLEAN :
      IF is_video THEN st.source.streams.video /\ st.settings.enable_video
      ELSE st.source.streams.audio /\ st.settings.enable_audio }

MainBranch(st, is_video) == BranchOf(StreamOf(st, is_video), FALSE)

\* A required kind that has neither a block running time nor reached EOS.
StillAwaited(st, is_video) ==
  BlockRunningTime(MainBranch(st, is_video)) = None /\ ~IsEos(MainBranch(st, is_video))

\* The running times of the required kinds that have not ended.
ConstrainingTimes(st) ==
  { BlockRunningTime(MainBranch(st, is_video)).some :
      is_video \in { v \in RequiredKinds(st) : ~IsEos(MainBranch(st, v)) } }

MinOf(S) == CHOOSE m \in S : \A n \in S : m <= n

\* C22: with the gates open unblock_pads defers exactly when some required
\* kind is still awaited; otherwise it completes, removes the blocks of the
\* required kinds and gives every required kind that has not ended the pad
\* offset of the minimum running time of the kinds that have not ended.
C22_DefersExactlyWhenAwaited ==
  GatesOpen(World)
    => LET w1 == unblock_pads(World, FALSE) IN
       IF \E is_video \in RequiredKinds(state) : StillAwaited(state, is_video)
       THEN w1 = World
       ELSE /\ ~w1.panicked
            /\ \A is_video \in RequiredKinds(state) :
                 /\ ~HasBlock(w1.state, is_video, FALSE)
                 /\ (HasBlock(state, is_video, FALSE) /\ ~IsEos(MainBranch(state, is_video)))
                      => OffsetOf(w1, is_video, FALSE) =
                           Some(PadOffset(current_running_time,
                                          MinOf(ConstrainingTimes(state))))

\* ------------------------------------------------ live sources (C23)
InitLive ==
  InitWith([Configuration EXCEPT !.enable_audio = TRUE, !.enable_video = TRUE,
                                 !.manual_unblock = TRUE],
           Narrow)

\* The primary may turn out to be live (NO_PREROLL) when it reaches PAUSED.
NextLive ==
  \/ \E transition \in Upward : ChangeStateBegin(transition, TRUE)
  \/ \E res \in {"Success", "NoPreroll"} : ChangeStateSource(res)
  \/ Streaming({None, Some(MaxRunningTime)})
  \/ UnblockSignal
  \/ RunningTimeAdvances

SpecLive == InitLive /\ [][NextLive]_vars

\* C23: the first buffer or gap on a blocked branch of a live primary
\* removes that branch's block and sets no pad offset, whatever the
\* buffering percentage, the manual block and the other branch are; nothing
\* else changes.
C23_LiveReleasedAtOnce ==
  [][\A is_video \in BOOLEAN, pts \in Timestamps :
       (state # None /\ state.source.is_live
          /\ PadBlocked(is_video, pts, [start |-> 0, stop |-> None], FALSE))
         => /\ ~HasBlock(state', is_video, FALSE)
            /\ OffsetOf(World', is_video, FALSE) = None
            /\ StreamOf(state', ~is_video) = StreamOf(state, ~is_video)
            /\ state'.stats = state.stats
            /\ state'.manually_blocked = state.manually_blocked]_vars

\* A live primary, manually blocked and buffering at 50 %, has had its
\* audio branch released while its video branch is still blocked.
C23_Witness ==
  /\ state # None /\ state.source.is_live
  /\ state.manually_blocked
  /\ state.stats.buffering_percent < 100
  /\ state.audio_stream.main_branch # None
  /\ ~HasBlock(state, FALSE, FALSE)
  /\ HasBlock(state, TRUE, FALSE)

\* ---------------------------------------------- buffering gate (C24)
InitBuffering ==
  InitWith([Configuration EXCEPT !.enable_audio = TRUE, !.fallback_uri = TRUE],
           Narrow)

\* Primary and fallback stream audio and post buffering messages; the
\* primary can fail and be restarted.
NextBuffering ==
  \/ \E transition \in Upward : ChangeStateBegin(transition, TRUE)
  \/ ChangeStateSource("Success")
  \/ ChangeStateFallback("Success")
  \/ \E origin \in {"main", "fallback"} : StreamsSelectedMessage(origin, AudioOnly)
  \/ \E fallback_source \in BOOLEAN : SourcePadAdded("audio_0", FALSE, fallback_source)
  \/ \E fallback_source \in BOOLEAN :
       PadBlocked(FALSE, Some(0), [start |-> 0, stop |-> None], fallback_source)
  \/ \E origin \in {"main", "fallback"}, percent \in Percents :
       BufferingMessage(origin, percent)
  \/ ErrorMessage("main")
  \/ Tasks

SpecBuffering == InitBuffering /\ [][NextBuffering]_vars

BufferingPercent(st, fallback_source) ==
  IF fallback_source THEN st.stats.fallback_buffering_percent
  ELSE st.stats.buffering_percent

SetBufferingPercent(st, fallback_source, percent) ==
  IF fallback_source THEN [st EXCEPT !.stats.fallback_buffering_percent = percent]
  ELSE [st EXCEPT !.stats.buffering_percent = percent]

\* Every branch of the source that is open has a block installed.
AllBlocked(st, fallback_source) ==
  \A is_video \in BOOLEAN :
    BranchOf(StreamOf(st, is_video), fallback_source) # None
      => HasBlock(st, is_video, fallback_source)

\* C24: unblock_pads leaves alone a source whose buffering percentage is
\* below 100; a buffering message of a source that is not pending restart
\* leaves every open branch of the source blocked when it is below 100 and
\* is the invocation of unblock_pads for the source when it is at 100.
C24_BufferingGate ==
  /\ [](\A fallback_source \in BOOLEAN :
          (state # None /\ Src(state, fallback_source) # None
             /\ BufferingPercent(state, fallback_source) < 100)
            => unblock_pads(World, fallback_source) = World)
  /\ [][\A fallback_source \in BOOLEAN, percent \in Percents :
          (/\ BufferingMessage(IF fallback_source THEN "fallback" ELSE "main", percent)
           /\ ~Src(state, fallback_source).pending_restart)
            => IF percent < 100
               THEN /\ BufferingPercent(state', fallback_source) = percent
                    /\ AllBlocked(state', fallback_source)
               ELSE World' = unblock_pads(
                      [World EXCEPT !.state =
                         SetBufferingPercent(@, fallback_source, 100)],
                      fallback_source)]_vars

\* The primary's audio branch had been released with a pad offset and a
\* buffering message below 100 has blocked it again.
C24_Witness ==
  /\ state # None
  /\ state.stats.buffering_percent < 100
  /\ ~state.source.pending_restart
  /\ HasBlock(state, FALSE, FALSE)
  /\ OffsetOf(World, FALSE, FALSE) # None

\* --------------------------------- attribution of messages (C25)
InitAttribution ==
  \E fallback_uri \in BOOLEAN :
    InitWith([Configuration EXCEPT !.enable_audio = TRUE, !.fallback_uri = fallback_uri],
             Narrow)

\* Buffering and streams-selected messages reach the element from inside
\* the primary, from inside the fallback and from its other children.
NextAttribution ==
  \/ \E transition \in Upward : ChangeStateBegin(transition, TRUE)
  \/ ChangeStateSource("Success")
  \/ ChangeStateFallback("Success")
  \/ \E origin \in Origins, streams \in {AudioOnly, Both} :
       StreamsSelectedMessage(origin, streams)
  \/ \E fallback_source \in BOOLEAN : SourcePadAdded("audio_0", FALSE, fallback_source)
  \/ \E fallback_source \in BOOLEAN :
       PadBlocked(FALSE, Some(0), [start |-> 0, stop |-> None], fallback_source)
  \/ \E origin \in Origins, percent \in Percents : BufferingMessage(origin, percent)

SpecAttribution == InitAttribution /\ [][NextAttribution]_vars

\* What buffering and streams-selected messages set for one source: its
\* percentage, last update, stream collection and the blocks of its branches.
MessageState(st, fallback_source) ==
  [percent |-> BufferingPercent(st, fallback_source),
   last_update |-> IF fallback_source THEN st.fallback_last_buffering_update
                   ELSE st.last_buffering_update,
   streams |-> IF Src(st, fallback_source) = None THEN None
               ELSE Src(st, fallback_source).streams,
   branches |-> [is_video \in BOOLEAN |->
                   BranchOf(StreamOf(st, is_video), fallback_source)]]

\* The handlers of the two messages, for a message from origin.
MessageResults(origin) ==
  { handle_buffering(World, origin, percent).state : percent \in Percents }
  \cup { handle_streams_selected(World, origin, streams).state :
           streams \in {AudioOnly, Both} }

\* C25: a buffering or streams-selected message from inside one container
\* leaves what belongs to the other source alone, and one from inside
\* neither container leaves both alone.
C25_MessagesAttributed ==
  state # None
    => /\ \A st \in MessageResults("other") :
            \A fallback_source \in BOOLEAN :
              MessageState(st, fallback_source) = MessageState(state, fallback_source)
       /\ \A st \in MessageResults("main") :
            MessageState(st, TRUE) = MessageState(state, TRUE)
       /\ \A st \in MessageResults("fallback") :
            MessageState(st, FALSE) = MessageState(state, FALSE)

\* ------------------------------------------ branches of a stream (C26)
InitBranches ==
  InitWith([Configuration EXCEPT !.enable_video = TRUE, !.fallback_uri = TRUE],
           Narrow)

\* Both sources add and remove audio and video pads; audio is not enabled.
NextBranches ==
  \/ \E transition \in Upward : ChangeStateBegin(transition, TRUE)
  \/ ChangeStateSource("Success")
  \/ ChangeStateFallback("Success")
  \/ \E pad \in PadNames, fallback_source \in BOOLEAN :
       SourcePadAdded(pad, FALSE, fallback_source)
  \/ \E pad \in PadNames, fallback_source \in BOOLEAN :
       SourcePadRemoved(pad, fallback_source)
  \/ StreamsSelectedMessage("main", Both)
  \/ PadBlocked(TRUE, Some(0), [start |-> 0, stop |-> None], FALSE)

SpecBranches == InitBranches /\ [][NextBranches]_vars

\* The source pad the branch of a kind and role was built for.
BranchPad(st, is_video, fallback_source) ==
  IF BranchOf(StreamOf(st, is_video), fallback_source) = None THEN None
  ELSE Some(BranchOf(StreamOf(st, is_video), fallback_source).source_srcpad)

\* C26: a stream has one optional branch per role.  A new pad gets a branch
\* exactly when its kind has a stream and its role no branch yet, and no
\* other branch changes; a removed pad removes the branch built for it and
\* no other.
C26_OneBranchPerRole ==
  [][/\ \A pad \in PadNames, fallback_source \in BOOLEAN :
          SourcePadAdded(pad, FALSE, fallback_source)
            => \A is_video \in BOOLEAN, role \in BOOLEAN :
                 BranchPad(state', is_video, role) =
                   IF /\ is_video = IsVideoPad(pad) /\ role = fallback_source
                      /\ StreamOf(state, is_video) # None
                      /\ BranchPad(state, is_video, role) = None
                   THEN Some(pad)
                   ELSE BranchPad(state, is_video, role)
     /\ \A pad \in PadNames, fallback_source \in BOOLEAN :
          SourcePadRemoved(pad, fallback_source)
            => \A is_video \in BOOLEAN, role \in BOOLEAN :
                 BranchPad(state', is_video, role) =
                   IF role = fallback_source /\ BranchPad(state, is_video, role) = Some(pad)
                   THEN None
                   ELSE BranchPad(state, is_video, role)]_vars

\* The primary has added an audio pad, for which no stream is enabled, and
\* two video pads, of which the first has the main branch of the video
\* stream.
C26_Witness ==
  /\ state # None
  /\ state.source.source.pads = PadNames
  /\ state.audio_stream = None
  /\ BranchPad(state, TRUE, FALSE) = Some("video_0")
  /\ BranchPad(state, TRUE, TRUE) # None

\* --------------------------------------------------- EOS of a pad (C27)
InitEos ==
  \E restart_on_eos \in BOOLEAN :
    InitWith([Configuration EXCEPT !.enable_video = TRUE, !.fallback_uri = TRUE,
                                   !.restart_on_eos = restart_on_eos],
             Narrow)

\* Both sources add a video pad, a still image or not, and reach EOS on it.
NextEos ==
  \/ \E transition \in Upward : ChangeStateBegin(transition, TRUE)
  \/ ChangeStateSource("Success")
  \/ ChangeStateFallback("Success")
  \/ \E is_image \in BOOLEAN, fallback_source \in BOOLEAN :
       SourcePadAdded("video_0", is_image, fallback_source)
  \/ \E fallback_source \in BOOLEAN : SourcePadEos(TRUE, fallback_source)
  \/ Tasks

SpecEos == InitEos /\ [][NextEos]_vars

\* The pad of the kind and role reaches EOS and is not a still image.
EosOnPad(is_video, fallback_source) ==
  /\ SourcePadEos(is_video, fallback_source)
  /\ ~BranchOf(StreamOf(state, is_video), fallback_source).is_image

\* C27: the EOS of a pad that is not a still image is dropped and handed to
\* handle_source_error with reason Eos when the pad is the fallback's, or
\* the primary's with restart-on-eos; the source is then pending restart
\* and, unless it was so already, its retry counter has gone up by one.
\* The EOS of a primary pad without restart-on-eos passes and starts no
\* restart.
C27_EosRestartsOrPasses ==
  [][\A fallback_source \in BOOLEAN :
       EosOnPad(TRUE, fallback_source)
         => IF fallback_source \/ settings.restart_on_eos
            THEN /\ eos_probe_return(state, TRUE, fallback_source) = "Drop"
                 /\ ReasonOf(state', fallback_source) = "Eos"
                 /\ Src(state', fallback_source).pending_restart
                 /\ ~Src(state, fallback_source).pending_restart
                      => /\ BagIn(Task("source_error", fallback_source, "remove_blocks"), tasks')
                         /\ state'.stats.num_retry + state'.stats.num_fallback_retry
                              = state.stats.num_retry + state.stats.num_fallback_retry + 1
            ELSE /\ eos_probe_return(state, TRUE, fallback_source) = "Ok"
                 /\ state'.stats = state.stats
                 /\ state'.source = state.source
                 /\ tasks' = tasks /\ clock' = clock]_vars

\* Without restart-on-eos the primary's pad has reached EOS and nothing was
\* restarted, while the EOS of the fallback's pad has started a restart of
\* the fallback.
C27_Witness ==
  /\ state # None /\ ~settings.restart_on_eos
  /\ IsEos(state.video_stream.main_branch)
  /\ ~state.video_stream.main_branch.is_image
  /\ state.stats.num_retry = 0 /\ ~state.source.pending_restart
  /\ state.stats.last_fallback_retry_reason = "Eos"
  /\ state.stats.num_fallback_retry = 1

\* ------------------------------------- have_fallback_activated (C28)
\* The stream kinds (is_video) that are enabled and present in the
\* primary's stream collection.
EnabledPresent(st) ==
  { is_video \in BOOLEAN :
      /\ StreamOf(st, is_video) # None
      /\ IF is_video THEN HaveVideo(st.source.streams) ELSE HaveAudio(st.source.streams) }

\* C28: have_fallback_activated is true exactly when every stream kind that
\* is enabled and present has an input other than the main one active in
\* its switch, which includes that there is no such kind.
C28_ActivatedForEveryKind ==
  state # None
    => have_fallback_activated(state)
         = (\A is_video \in EnabledPresent(state) :
              ActivePadNotMain(StreamOf(state, is_video)))

\* ------------------------------- order of a restart sequence (C29)
CoolDownTask(fallback_source) == Task("source_error", fallback_source, "cool_down")
RestartTask(fallback_source) == Task("restart", fallback_source, "restart")

\* The shutdown step of the sequence has run and its cool-down has not
\* fired yet: the cool-down closure is queued or the timer is scheduled.
CoolingDown(fallback_source) ==
  /\ state # None /\ Src(state, fallback_source) # None
  /\ Src(state, fallback_source).pending_restart
  /\ \/ BagIn(CoolDownTask(fallback_source), tasks)
     \/ UnfiredId(Src(state, fallback_source).pending_restart_timeout)

NoBlocks(st, fallback_source) ==
  \A is_video \in BOOLEAN : ~HasBlock(st, is_video, fallback_source)

\* The primary posts an error while no state change of the element is in
\* progress.
ErrorWhileIdle == host.pc = "idle" /\ ErrorMessage("main")

NextOrder ==
  \/ \E transition \in Transitions : ChangeStateBegin(transition, TRUE)
  \/ ChangeStateSource("Success")
  \/ ErrorWhileIdle
  \/ Tasks
  \/ PendingRestartTimeoutFires(FALSE)
  \/ Tick

SpecOrder == InitStop /\ [][NextOrder]_vars

\* C29: the shutdown step removes the source's blocks, stops its container
\* and queues the cool-down step; the cool-down step registers the timer;
\* the recreation step is queued only by the timer that has fired; and
\* from the shutdown until the timer has fired the container stays stopped.
C29_SequenceInOrder ==
  /\ [][\A fallback_source \in BOOLEAN :
          /\ (/\ RunTask(Task("source_error", fallback_source, "remove_blocks"), TRUE)
              /\ state # None /\ RestartWanted(state, fallback_source))
               => /\ NoBlocks(state', fallback_source)
                  /\ Src(state', fallback_source).source.cur_state = "Null"
                  /\ BagIn(CoolDownTask(fallback_source), tasks')
                  /\ Src(state', fallback_source).pending_restart_timeout = None
          /\ (/\ RunTask(CoolDownTask(fallback_source), TRUE)
              /\ state # None /\ RestartWanted(state, fallback_source))
               => Src(state', fallback_source).pending_restart_timeout = ClockId(CoolDown)
          /\ (~BagIn(RestartTask(fallback_source), tasks)
                /\ BagIn(RestartTask(fallback_source), tasks'))
               => /\ Src(state, fallback_source).pending_restart_timeout.remaining = 0
                  /\ Src(state', fallback_source).pending_restart_timeout.fired]_vars
  /\ [](\A fallback_source \in BOOLEAN :
          CoolingDown(fallback_source)
            => Src(state, fallback_source).source.cur_state = "Null")

\* ------------------------------ after the cool-down: sync (C30)
SyncTask(fallback_source) == Task("restart", fallback_source, "sync")

RetryCount(st, fallback_source) ==
  IF fallback_source THEN st.stats.num_fallback_retry ELSE st.stats.num_retry

\* C30: when the continuation after sync_state_with_parent() runs in a
\* running element, a failed sync starts a new restart sequence of the
\* source with reason StateChangeFailure and one more retry counted, and a
\* sync that succeeded leaves the primary with a restart-timeout armed.
C30_SyncFailsOrArms ==
  [][\A fallback_source \in BOOLEAN, ok \in BOOLEAN :
       (RunTask(SyncTask(fallback_source), ok) /\ state # None)
         => /\ ~panicked'
            /\ state' # None
            /\ IF ~ok
               THEN /\ ReasonOf(state', fallback_source) = "StateChangeFailure"
                    /\ Src(state', fallback_source).pending_restart
                    /\ RetryCount(state', fallback_source)
                         = RetryCount(state, fallback_source) + 1
                    /\ BagIn(Task("source_error", fallback_source, "remove_blocks"), tasks')
               ELSE ~fallback_source => UnfiredId(state'.source.restart_timeout)]_vars

\* --------------------------------------------- live classification (C31)
\* A live primary from a URI: every state change of the source that
\* succeeds returns NO_PREROLL.
NextLiveness ==
  \/ \E transition \in Transitions : ChangeStateBegin(transition, TRUE)
  \/ ChangeStateSource("NoPreroll")
  \/ ErrorWhileIdle
  \/ Tasks
  \/ PendingRestartTimeoutFires(FALSE)
  \/ Tick

SpecLiveness == InitStop /\ [][NextLiveness]_vars

IsLive(st, fallback_source) ==
  st # None /\ Src(st, fallback_source) # None /\ Src(st, fallback_source).is_live

\* C31: once the ready-to-paused transition of a live source has classified
\* it as live, no later step taken while the supervisor runs (no transition
\* and no restart of the source) changes the classification.
C31_LivenessFixed ==
  [][\A fallback_source \in BOOLEAN :
       (IsLive(state, fallback_source) /\ state' # None)
         => IsLive(state', fallback_source)]_vars

\* ------------------------------- failed state changes of a source (C32)
InitFailures == InitWith([Configuration EXCEPT !.fallback_uri = TRUE], Narrow)

NextFailures ==
  \/ \E transition \in Transitions : ChangeStateBegin(transition, TRUE)
  \/ \E res \in {"Success", "Error"} : ChangeStateSource(res)
  \/ \E res \in {"Success", "Error"} : ChangeStateFallback(res)
  \/ Tasks

SpecFailures == InitFailures /\ [][NextFailures]_vars

\* The step in which source.set_state() of a host transition returns.
SetStateReturns(fallback_source, res) ==
  IF fallback_source THEN ChangeStateFallback(res) ELSE ChangeStateSource(res)

\* C32: when source.set_state() fails in a host transition other than
\* ready-to-null, handle_source_error runs for that source with reason
\* StateChangeFailure and leaves it pending restart; the other source gets
\* no new restart and no changed statistics from it and is still driven
\* through the transition; and the host transition ends with success.
C32_FailureRestartsThatSource ==
  /\ [][\A fallback_source \in BOOLEAN :
          (/\ SetStateReturns(fallback_source, "Error")
           /\ <<host.cur, host.next>> # <<"Ready", "Null">>)
            => /\ ~panicked'
               /\ state' # None
               /\ ReasonOf(state', fallback_source) = "StateChangeFailure"
               /\ Src(state', fallback_source).pending_restart
               /\ RetryCount(state', fallback_source) =
                    RetryCount(state, fallback_source)
                      + (IF Src(state, fallback_source).pending_restart THEN 0 ELSE 1)
               /\ LET other == ~fallback_source
                  IN /\ ReasonOf(state', other) = ReasonOf(state, other)
                     /\ RetryCount(state', other) = RetryCount(state, other)
                     /\ Src(state', other).pending_restart
                          => Src(state, other).pending_restart
               /\ ~fallback_source =>
                    (host'.pc = "fallback")
                      = change_source_state(World, <<host.cur, host.next>>, TRUE).set_state]_vars
  /\ [][(host.pc # "idle" /\ host'.pc = "idle")
          => /\ host'.cur = host.next
             /\ host'.ret = Returned(<<host.cur, host.next>>)]_vars

C32_Witness ==
  /\ state # None /\ host.pc = "idle" /\ host.cur = "Paused" /\ host.ret = "NoPreroll"
  /\ state.stats.last_retry_reason = "StateChangeFailure"
  /\ state.source.pending_restart
  /\ state.stats.last_fallback_retry_reason = "None"
  /\ ~state.fallback_source.pending_restart
  /\ state.fallback_source.source.cur_state = "Paused"

\* ------------------------------------------- blocks at stop() (C33)
\* A primary with a video stream whose state changes may fail.
InitTeardown == InitWith([Configuration EXCEPT !.enable_video = TRUE], Narrow)

NextTeardown ==
  \/ \E transition \in Transitions : ChangeStateBegin(transition, TRUE)
  \/ \E res \in {"Success", "Error", "Stuck"} : ChangeStateSource(res)
  \/ SourcePadAdded("video_0", FALSE, FALSE)
  \/ Tasks

SpecTeardown == InitTeardown /\ [][NextTeardown]_vars

\* C33: stop() removes the blocking probe of every Block record that is
\* outstanding before it tears the branches down: no probe of a block is
\* left installed on a pad of a branch that stop() has destroyed.
C33_StopRemovesBlockProbes == ~host.probes_left

\* --------------------- the assertion of the cool-down step (C34)
CoolDownStep(t) == t.kind = "source_error" /\ t.pc = "cool_down"

\* C34: the cool-down step of a restart sequence never fails its
\* assertion: when it registers the cool-down timer the source has no
\* pending_restart_timeout stored.
C34_CoolDownAssertionHolds ==
  [][\A t \in BagToSet(tasks) :
       (CoolDownStep(t) /\ RunTask(t, TRUE)) => ~panicked']_vars

\* ------------------------- the assertion of the continuation (C35)
SyncStep(t) == t.kind = "restart" /\ t.pc = "sync"

\* C35: the continuation that runs after the restarted source has been
\* brought back in sync never fails its assertion: when it re-takes the lock
\* in a running element after a sync that succeeded, no restart-timeout is
\* scheduled for the source.
C35_SyncAssertionHolds ==
  [][\A t \in BagToSet(tasks) :
       (SyncStep(t) /\ RunTask(t, TRUE) /\ state # None)
         => /\ Src(state, t.fallback_source) # None
                 => Src(state, t.fallback_source).restart_timeout = None
            /\ ~panicked']_vars

\* ------------------------ a restart sequence comes to an end (C36)
\* A live primary; the element is never taken to NULL, so stop() is not
\* called.  Queued closures run and scheduled timers fire.
NextSequence ==
  \/ \E transition \in Transitions \ {<<"Ready", "Null">>} :
       ChangeStateBegin(transition, TRUE)
  \/ ChangeStateSource("NoPreroll")
  \/ ErrorWhileIdle
  \/ Tasks
  \/ PendingRestartTimeoutFires(FALSE)
  \/ Tick

SpecSequence ==
  /\ InitStop /\ [][NextSequence]_vars
  /\ WF_vars(Tasks) /\ WF_vars(PendingRestartTimeoutFires(FALSE)) /\ WF_vars(Tick)
  /\ WF_vars(ChangeStateSource("NoPreroll"))

RestartPending == state # None /\ state.source.pending_restart /\ ~panicked

\* C36: every restart sequence of the primary that has started comes to
\* an end: a source that is pending restart is eventually not pending
\* restart any more.
C36_SequenceEnds == RestartPending ~> ~RestartPending

\* --------------------- buffering state of a restarted source (C37)
RecreationStep(t) == t.kind = "restart" /\ t.pc = "restart"

LastBufferingUpdate(st, fallback_source) ==
  IF fallback_source THEN st.fallback_last_buffering_update
  ELSE st.last_buffering_update

\* C37: when the recreation step of a restart sequence has recreated or
\* resumed the source, the buffering percentage of that source is 100 and
\* its last buffering update is cleared.
C37_RestartResetsBuffering ==
  [][\A t \in BagToSet(tasks) :
       (/\ RecreationStep(t) /\ RunTask(t, TRUE)
        /\ state # None /\ RestartWanted(state, t.fallback_source)
        /\ Src(state, t.fallback_source) # None)
         => /\ BufferingPercent(state', t.fallback_source) = 100
            /\ LastBufferingUpdate(state', t.fallback_source) = None]_vars

\* ------------------------------ a failed null-to-ready transition (C38)
\* change_state has returned an error and has left the element in NULL.
StartFailed == host.pc = "idle" /\ host.cur = "Null" /\ host.ret = "Error"

\* C38: after a null-to-ready transition that failed the supervisor has no
\* state object, so the next null-to-ready transition can start it again;
\* and a start() that finds a state object fails and leaves it unchanged.
C38_FailedStartLeavesStopped ==
  /\ [](StartFailed => state = None)
  /\ [][\A parent_ok \in BOOLEAN :
          (ChangeStateBegin(<<"Null", "Ready">>, parent_ok) /\ state # None)
            => /\ host'.ret = "Error"
               /\ state' = state]_vars

\* --------------------- pending_restart and the timers of a source (C39)
\* Restart-timeouts of the primary source that are scheduled at the clock
\* and have not fired: the stored id, and ids that were dropped without
\* unschedule().
RestartTimeoutsScheduled ==
  CountIn(clock, { e \in BagToSet(clock) :
             e.purpose = "restart" /\ ~e.fallback_source /\ ~e.before_stop })
  + (IF state # None /\ UnfiredId(state.source.restart_timeout) THEN 1 ELSE 0)

\* C39: a source that is pending restart has no restart-timeout scheduled,
\* and a source that has a cool-down timer registered is pending restart.
C39_PendingRestartAndTimers ==
  state # None =>
    /\ state.source.pending_restart
         => /\ state.source.restart_timeout = None
            /\ RestartTimeoutsScheduled = 0
    /\ \A fallback_source \in BOOLEAN :
         Src(state, fallback_source) # None =>
           LET source == Src(state, fallback_source)
           IN /\ source.pending_restart => source.restart_timeout = None
              /\ (\/ source.pending_restart_timeout # None
                  \/ PendingRestartTimeoutsInFlight(fallback_source) > 0)
                   => source.pending_restart

====
